---- MODULE Spec2Model ----
(***************************************************************************)
(* The staged-configuration engine of the configuration shell              *)
(* (src/configCli.py): the running and candidate configuration trees, the  *)
(* set / delete / show / compare / commit / discard commands of the        *)
(* command loop, and the static-route renderer the commit calls; and the   *)
(* selection of the commit scripts (src/get_commit_scripts.py), a function *)
(* of the schema document and the two trees that the command loop does not *)
(* call: ScriptSpec applies it to the inputs it draws.                     *)
(*                                                                         *)
(* Python dictionaries are objects: two names can hold the same dict, and  *)
(* a shallow copy shares every nested dict with its original.  The model   *)
(* therefore keeps a heap of dict objects.  Object 1 is running_config,    *)
(* object 2 is candidate_config (main never rebinds either name).  A dict  *)
(* is the sequence of its items in insertion order; a value is NoneV or    *)
(* the id of a dict object.                                                *)
(*                                                                         *)
(* The command tree (commands_json) is a value: a node is its type, its    *)
(* validator, its command and the sequence of its children.  main rewrites *)
(* the tree after every command that changes a configuration               *)
(* (populate_config_tree).  ShellSpec runs the command loop with the tree  *)
(* kept, over lines that hold tokens a validator rejects.  Spec runs the   *)
(* loop over a larger store with lines that the walks accept whatever the  *)
(* tree holds, and keeps no tree (NoTree).  WalkSpec applies the walks of  *)
(* one line (validate, parse_config_command, find_command of               *)
(* src/mainCLI.py, the completion key of src/cli_common.py) to the trees   *)
(* and lines it draws; only there is a token drawn that is a reserved key  *)
(* of a node (type, command).                                              *)
(*                                                                         *)
(* The saved configuration (router-config.json) is a variable.  A session  *)
(* of Spec or ShellSpec is one call of configCli.main and reads the file   *)
(* once; SessionSpec starts at the operational prompt of src/mainCLI.py    *)
(* and runs configure, the commands of a session with save among them, and *)
(* exit, any number of times.                                              *)
(***************************************************************************)
EXTENDS Integers, Sequences, FiniteSets, TLC

VARIABLES heap, pc, last, track, main_config, commands_json, saved_file

vars == <<heap, pc, last, track, main_config, commands_json, saved_file>>

----------------------------------------------------------------------------
(* The command universe: the static routes an operator can name *)

NumHops == 2

HopNames == <<"192.0.2.1", "192.0.2.2", "192.0.2.3", "192.0.2.4">>

Prefixes == {"10.1.0.0/16"}
Hops == {HopNames[i] : i \in 1..NumHops}

RouteBase == <<"protocols", "static", "route">>

RoutePath(r, nh) == RouteBase \o <<r, "next-hop", nh>>

FullPaths == {RoutePath(r, nh) : r \in Prefixes, nh \in Hops}

\* the token paths an operator types after set / delete / show
PathParts == {SubSeq(p, 1, n) : p \in FullPaths, n \in 1..6}

----------------------------------------------------------------------------
(* Python dict and heap primitives *)

NoneV == 0
RUNNING == 1
CANDIDATE == 2

Idx(d, k) ==
    IF \E i \in 1..Len(d) : d[i].k = k
    THEN CHOOSE i \in 1..Len(d) : d[i].k = k
    ELSE 0

Has(d, k) == \E i \in 1..Len(d) : d[i].k = k

Get(d, k) == d[Idx(d, k)].v

\* d[k] = v : an existing key keeps its position, a new key goes last
Put(d, k, v) ==
    IF Has(d, k) THEN [d EXCEPT ![Idx(d, k)].v = v]
    ELSE Append(d, [k |-> k, v |-> v])

\* del d[k]
Del(d, k) ==
    LET i == Idx(d, k) IN SubSeq(d, 1, i - 1) \o SubSeq(d, i + 1, Len(d))

SetItem(h, o, k, v) == [h EXCEPT ![o] = Put(@, k, v)]

DelItem(h, o, k) == [h EXCEPT ![o] = Del(@, k)]

\* {} : a new dict object, whose id is Len(h) + 1
NewDict(h) == Append(h, <<>>)

\* o[k] = {}
SetNew(h, o, k) == SetItem(NewDict(h), o, k, Len(h) + 1)

\* Python truthiness of a value: None and {} are false
Falsy(h, v) == v = NoneV \/ Len(h[v]) = 0

Ok(h) == [h |-> h, ex |-> FALSE]
Raise(h) == [h |-> h, ex |-> TRUE]

----------------------------------------------------------------------------
(* Objects are named by their position in a walk from the two roots, and   *)
(* objects no name reaches any more are dropped (reference counting).      *)

Pos(order, o) ==
    IF \E i \in 1..Len(order) : order[i] = o
    THEN CHOOSE i \in 1..Len(order) : order[i] = o
    ELSE 0

RECURSIVE Reach(_, _, _, _)
Reach(h, order, o, i) ==
    IF i > Len(h[o]) THEN order
    ELSE LET v == h[o][i].v IN
         IF v = NoneV \/ Pos(order, v) # 0 THEN Reach(h, order, o, i + 1)
         ELSE Reach(h, Reach(h, Append(order, v), v, 1), o, i + 1)

Collect(h) ==
    LET order == Reach(h, Reach(h, <<RUNNING, CANDIDATE>>, RUNNING, 1), CANDIDATE, 1)
    IN [j \in 1..Len(order) |->
          [e \in 1..Len(h[order[j]]) |->
             [k |-> h[order[j]][e].k,
              v |-> IF h[order[j]][e].v = NoneV THEN NoneV
                    ELSE Pos(order, h[order[j]][e].v)]]]

----------------------------------------------------------------------------
(* parse_config_command *)

NextHopIndex(path_parts) ==
    CHOOSE i \in 1..Len(path_parts) :
        /\ path_parts[i] = "next-hop"
        /\ \A j \in 1..(i - 1) : path_parts[j] # "next-hop"

\* lines 127-130: current[part] = {}; current = current[part]
RECURSIVE BuildHead(_, _, _, _)
BuildHead(h, current, head, i) ==
    IF i > Len(head) THEN [h |-> h, cur |-> current]
    ELSE BuildHead(SetNew(h, current, head[i]), Len(h) + 1, head, i + 1)

\* ParseNextHop as it would be if the prefix and its next-hop were staged as
\* two sibling leaves
ParseNextHopSiblings(h, path_parts) ==
    LET n == NextHopIndex(path_parts)
        h0 == NewDict(h)
        root == Len(h0)
        b == BuildHead(h0, root, SubSeq(path_parts, 1, n - 2), 1)
        h1 == SetNew(b.h, b.cur, path_parts[n - 1])
        h2 == SetNew(h1, b.cur, "next-hop")
        h3 == SetNew(h2, Len(h2), path_parts[n + 1])
    IN [h |-> h3, root |-> root]

\* ParseNextHop as it would be if the tokens after the next-hop value were
\* staged under it
ParseNextHopTail(h, path_parts) ==
    LET n == NextHopIndex(path_parts)
        h0 == NewDict(h)
        root == Len(h0)
        b == BuildHead(h0, root, SubSeq(path_parts, 1, n + 1), 1)
    IN [h |-> BuildHead(b.h, b.cur, SubSeq(path_parts, n + 2, Len(path_parts)), 1).h,
        root |-> root]

\* lines 117-138: set ... <prefix> next-hop <value> ...
ParseNextHop(h, path_parts) ==
    LET n == NextHopIndex(path_parts)
        \* path_parts[next_hop_index - 1]: index -1 is the last token
        prefix == IF n = 1 THEN path_parts[Len(path_parts)] ELSE path_parts[n - 1]
        next_hop_value == path_parts[n + 1]
        \* path_parts[:next_hop_index - 1]
        head == IF n = 1 THEN SubSeq(path_parts, 1, Len(path_parts) - 1)
                ELSE SubSeq(path_parts, 1, n - 2)
        h0 == NewDict(h)
        root == Len(h0)
        b == BuildHead(h0, root, head, 1)
        h1 == SetNew(b.h, b.cur, prefix)
        hp == Len(h1)
        h2 == SetNew(h1, hp, "next-hop")
        hn == Len(h2)
        h3 == SetNew(h2, hn, next_hop_value)
    IN [h |-> h3, root |-> root]

\* lines 141-171: the general loop
RECURSIVE ParseLoop(_, _, _, _, _)
ParseLoop(h, action, path_parts, current_dict, i) ==
    IF i > Len(path_parts) THEN h
    ELSE LET part == path_parts[i]
             h1 == IF Has(h[current_dict], part) THEN h
                   ELSE SetNew(h, current_dict, part)
             descend == ParseLoop(h1, action, path_parts,
                                  Get(h1[current_dict], part), i + 1)
         IN IF action = "set"
            THEN IF i = Len(path_parts) THEN SetNew(h, current_dict, part)
                 ELSE descend
            ELSE IF i = Len(path_parts)
                 THEN IF i > 1 THEN SetItem(h, current_dict, part, NoneV) ELSE h
                 ELSE descend

parse_config_command(h, action, path_parts) ==
    IF /\ action = "set"
       /\ \E i \in 1..Len(path_parts) : path_parts[i] = "next-hop"
       /\ NextHopIndex(path_parts) < Len(path_parts)
    THEN ParseNextHop(h, path_parts)
    ELSE LET h0 == NewDict(h)
         IN [h |-> ParseLoop(h0, action, path_parts, Len(h0), 1), root |-> Len(h0)]

----------------------------------------------------------------------------
(* update_config_dict *)

RECURSIVE update_config_dict(_, _, _)
RECURSIVE UpdateItems(_, _, _, _, _)

\* UpdateItems as it would be if a map that holds next-hop were merged into
\* the existing one like any other map
RECURSIVE UpdateItemsMerged(_, _, _, _, _)
UpdateItemsMerged(h, existing_dict, new_dict, size, i) ==
    IF i > size THEN Ok(h)
    ELSE
      LET key == h[new_dict][i].k
          value == h[new_dict][i].v
      IN IF value = NoneV
         THEN UpdateItemsMerged(IF Has(h[existing_dict], key)
                                THEN DelItem(h, existing_dict, key) ELSE h,
                                existing_dict, new_dict, size, i + 1)
         ELSE
           LET h1 == IF \/ ~Has(h[existing_dict], key)
                        \/ Get(h[existing_dict], key) = NoneV
                     THEN SetNew(h, existing_dict, key)
                     ELSE h
               r == UpdateItemsMerged(h1, Get(h1[existing_dict], key), value,
                                      Len(h1[value]), 1)
           IN UpdateItemsMerged(r.h, existing_dict, new_dict, size, i + 1)

\* the loop over new_dict.items(); a dict whose size changes while it is
\* iterated raises RuntimeError at the next step of the loop
UpdateItems(h, existing_dict, new_dict, size, i) ==
    IF Len(h[new_dict]) # size THEN Raise(h)
    ELSE IF i > size THEN Ok(h)
    ELSE
      LET key == h[new_dict][i].k
          value == h[new_dict][i].v
      IN IF value = NoneV
         THEN UpdateItems(IF Has(h[existing_dict], key)
                          THEN DelItem(h, existing_dict, key) ELSE h,
                          existing_dict, new_dict, size, i + 1)
         ELSE
           LET h1 == IF \/ ~Has(h[existing_dict], key)
                        \/ Get(h[existing_dict], key) = NoneV
                     THEN SetNew(h, existing_dict, key)
                     ELSE h
               r == IF Has(h1[value], "next-hop")
                    THEN Ok(SetItem(h1, existing_dict, key, value))
                    ELSE update_config_dict(h1, Get(h1[existing_dict], key), value)
           IN IF r.ex THEN r
              ELSE IF ~Has(r.h[existing_dict], key) THEN Raise(r.h)
              ELSE UpdateItems(IF Falsy(r.h, Get(r.h[existing_dict], key))
                               THEN DelItem(r.h, existing_dict, key) ELSE r.h,
                               existing_dict, new_dict, size, i + 1)

update_config_dict(h, existing_dict, new_dict) ==
    UpdateItems(h, existing_dict, new_dict, Len(h[new_dict]), 1)

----------------------------------------------------------------------------
(* get_nested_value, key_exists_in_config, delete_from_config_dict *)

RECURSIVE extract_path(_, _)
extract_path(h, d) ==
    IF d # NoneV /\ Len(h[d]) > 0
    THEN <<h[d][1].k>> \o extract_path(h, h[d][1].v)
    ELSE <<>>

\* the value at path_parts[i..] under current, NoneV when a part is missing
RECURSIVE get_nested_value(_, _, _, _)
get_nested_value(h, current, path_parts, i) ==
    IF i > Len(path_parts) THEN current
    ELSE IF current = NoneV \/ ~Has(h[current], path_parts[i]) THEN NoneV
    ELSE get_nested_value(h, Get(h[current], path_parts[i]), path_parts, i + 1)

\* key_exists_in_config as it would be if a path holding None counted as
\* existing
key_present_in_config(h, config_dict, path_dict) ==
    LET path == extract_path(h, path_dict)
        parent == get_nested_value(h, config_dict, SubSeq(path, 1, Len(path) - 1), 1)
    IN Len(path) = 0 \/ (parent # NoneV /\ Has(h[parent], path[Len(path)]))

key_exists_in_config(h, config_dict, path_dict) ==
    get_nested_value(h, config_dict, extract_path(h, path_dict), 1) # NoneV

\* _delete_path: [h, done]; nothing is removed when keys is empty
DeletePathKeys(h, config_dict, keys) ==
    IF Len(keys) = 0 THEN [h |-> h, done |-> FALSE]
    ELSE LET parents == SubSeq(keys, 1, Len(keys) - 1)
             last_key == keys[Len(keys)]
             \* the loop returns False as soon as a parent is missing
             reached == \A n \in 1..Len(parents) :
                           LET c == get_nested_value(h, config_dict,
                                                     SubSeq(parents, 1, n - 1), 1)
                           IN c # NoneV /\ Has(h[c], parents[n])
             current == get_nested_value(h, config_dict, parents, 1)
         IN IF reached /\ current # NoneV /\ Has(h[current], last_key)
            THEN [h |-> DelItem(h, current, last_key), done |-> TRUE]
            ELSE [h |-> h, done |-> FALSE]

delete_from_config_dict(h, config_dict, delete_dict) ==
    DeletePathKeys(h, config_dict, extract_path(h, delete_dict))

----------------------------------------------------------------------------
(* handle_delete_command *)

\* mark_for_deletion: `key not in None` and `None[key] = ...` raise TypeError
RECURSIVE mark_for_deletion(_, _, _)
RECURSIVE MarkItems(_, _, _, _)
MarkItems(h, config_dict, path_dict, i) ==
    IF i > Len(h[path_dict]) THEN Ok(h)
    ELSE IF config_dict = NoneV THEN Raise(h)
    ELSE
      LET key == h[path_dict][i].k
          value == h[path_dict][i].v
      IN IF value # NoneV /\ Len(h[value]) > 0
         THEN LET h1 == IF Has(h[config_dict], key) THEN h
                        ELSE SetNew(h, config_dict, key)
                  r == mark_for_deletion(h1, Get(h1[config_dict], key), value)
              IN IF r.ex THEN r ELSE MarkItems(r.h, config_dict, path_dict, i + 1)
         ELSE MarkItems(SetItem(h, config_dict, key, NoneV),
                        config_dict, path_dict, i + 1)

mark_for_deletion(h, config_dict, path_dict) == MarkItems(h, config_dict, path_dict, 1)

\* [h, res]: res is what the command reports
\*   "no_path"   "Error: Cannot delete - no path specified", then the
\*               "will take effect after commit" line
\*   "retracted" removed from candidate
\*   "marked"    tombstone written in candidate
\*   "not_found" "Error: Cannot delete - path ... does not exist in either
\*               configuration"
\*   "crash"     TypeError, which the command loop does not catch
handle_delete_command(h, parsed_command) ==
    IF key_exists_in_config(h, CANDIDATE, parsed_command)
    THEN LET d == delete_from_config_dict(h, CANDIDATE, parsed_command)
         IN [h |-> d.h,
             res |-> IF Len(extract_path(h, parsed_command)) = 0
                     THEN "no_path" ELSE "retracted"]
    ELSE IF key_exists_in_config(h, RUNNING, parsed_command)
    THEN LET m == mark_for_deletion(h, CANDIDATE, parsed_command)
         IN [h |-> m.h, res |-> IF m.ex THEN "crash" ELSE "marked"]
    ELSE [h |-> h, res |-> "not_found"]

----------------------------------------------------------------------------
(* show_subtree *)

ShowForms == {<<>>, <<"running">>, <<"candidate">>, <<"commands">>,
              <<"commands", "running">>, <<"commands", "candidate">>}

\* running_config.copy(): a new top-level dict holding the same values
ShallowCopy(h, o) == Append(h, h[o])

\* args are the tokens after `show`; [h, res]
show_subtree(h, args) ==
    IF Len(args) >= 1 /\ args[1] \in {"commands", "running", "candidate"}
    THEN [h |-> h,
          res |-> IF /\ args[1] = "commands"
                     /\ Len(args) > 1
                     /\ args[2] \notin {"running", "candidate"}
                  THEN "invalid" ELSE "printed"]
    ELSE LET h0 == ShallowCopy(h, RUNNING)
             merged_config == Len(h0)
             r == update_config_dict(h0, merged_config, CANDIDATE)
             node == get_nested_value(r.h, merged_config, args, 1)
             found == \A n \in 1..Len(args) :
                         LET c == get_nested_value(r.h, merged_config,
                                                   SubSeq(args, 1, n - 1), 1)
                         IN c # NoneV /\ Has(r.h[c], args[n])
         IN [h |-> r.h,
             res |-> IF r.ex THEN "crash"
                     ELSE IF found THEN "printed" ELSE "no_config"]

----------------------------------------------------------------------------
(* handle_commit *)

\* get_full_path: the paths of candidate that hold None, in item order
RECURSIVE get_full_path(_, _, _)
RECURSIVE FullPathItems(_, _, _, _)
FullPathItems(h, d, current_path, i) ==
    IF i > Len(h[d]) THEN <<>>
    ELSE LET path == Append(current_path, h[d][i].k)
             value == h[d][i].v
         IN (IF value = NoneV THEN <<path>> ELSE get_full_path(h, value, path))
            \o FullPathItems(h, d, current_path, i + 1)

get_full_path(h, d, current_path) == FullPathItems(h, d, current_path, 1)

\* lines 381-387: for key in parents[:-1]: if not parent[key]: del parent[key];
\* parent = parent[key]  (KeyError once the key was deleted)
RECURSIVE CleanParents(_, _, _, _)
CleanParents(h, parent, keys, i) ==
    IF i > Len(keys) THEN Ok(h)
    ELSE IF ~Has(h[parent], keys[i]) THEN Raise(h)
    ELSE IF Falsy(h, Get(h[parent], keys[i]))
         THEN Raise(DelItem(h, parent, keys[i]))
    ELSE CleanParents(h, Get(h[parent], keys[i]), keys, i + 1)

\* delete_path as it would be if the tombstoned path were left in place
delete_path_keeps(h, config, path) == Ok(h)

\* delete_path as it would be if it emptied the map that holds the path
delete_path_clears(h, config, path) ==
    IF Len(path) = 0 THEN Ok(h)
    ELSE LET parents == SubSeq(path, 1, Len(path) - 1)
             reached == \A n \in 1..Len(parents) :
                           LET c == get_nested_value(h, config,
                                                     SubSeq(parents, 1, n - 1), 1)
                           IN /\ c # NoneV
                              /\ Has(h[c], parents[n])
                              /\ Get(h[c], parents[n]) # NoneV
             current == get_nested_value(h, config, parents, 1)
         IN IF ~reached THEN Ok(h)
            ELSE Ok([h EXCEPT ![current] = <<>>])

delete_path(h, config, path) ==
    IF Len(path) = 0 THEN Ok(h)
    ELSE LET parents == SubSeq(path, 1, Len(path) - 1)
             last_key == path[Len(path)]
             reached == \A n \in 1..Len(parents) :
                           LET c == get_nested_value(h, config,
                                                     SubSeq(parents, 1, n - 1), 1)
                           IN /\ c # NoneV
                              /\ Has(h[c], parents[n])
                              /\ Get(h[c], parents[n]) # NoneV
             current == get_nested_value(h, config, parents, 1)
             h1 == IF Has(h[current], last_key) THEN DelItem(h, current, last_key)
                   ELSE h
         IN IF ~reached THEN Ok(h)
            ELSE IF Len(h1[current]) = 0
                 THEN CleanParents(h1, config, SubSeq(parents, 1, Len(parents) - 1), 1)
            ELSE Ok(h1)

\* for path in paths_to_delete: delete_path(merged_config, path)
RECURSIVE ProcessDeletions(_, _, _, _)
ProcessDeletions(h, config, paths, i) ==
    IF i > Len(paths) THEN Ok(h)
    ELSE LET r == delete_path(h, config, paths[i])
         IN IF r.ex THEN r ELSE ProcessDeletions(r.h, config, paths, i + 1)

\* process_additions: `key not in None` raises TypeError
RECURSIVE process_additions(_, _, _)
RECURSIVE AddItems(_, _, _, _, _)
AddItems(h, target_dict, source_dict, size, i) ==
    IF Len(h[source_dict]) # size THEN Raise(h)
    ELSE IF i > size THEN Ok(h)
    ELSE
      LET key == h[source_dict][i].k
          value == h[source_dict][i].v
      IN IF value = NoneV
         THEN AddItems(h, target_dict, source_dict, size, i + 1)
         ELSE IF target_dict = NoneV THEN Raise(h)
         ELSE
           LET h1 == IF Has(h[target_dict], key) THEN h
                     ELSE SetNew(h, target_dict, key)
               r == IF Len(h1[value]) > 0
                    THEN process_additions(h1, Get(h1[target_dict], key), value)
                    ELSE IF Falsy(h1, Get(h1[target_dict], key))
                         THEN Ok(SetNew(h1, target_dict, key))
                    ELSE Ok(h1)
           IN IF r.ex THEN r
              ELSE AddItems(r.h, target_dict, source_dict, size, i + 1)

process_additions(h, target_dict, source_dict) ==
    AddItems(h, target_dict, source_dict,
             IF source_dict = NoneV THEN 0 ELSE Len(h[source_dict]), 1)

----------------------------------------------------------------------------
(* renderers/static.py *)

\* the default {} of d.get(key, {})
EmptyDefault == -1

\* d.get(k, {}) for a dict d (or the default {})
GetOrEmpty(h, d, k) ==
    IF d # EmptyDefault /\ Has(h[d], k) THEN Get(h[d], k) ELSE EmptyDefault

ItemsOf(h, d) == IF d = EmptyDefault THEN <<>> ELSE h[d]

\* the distance of one next-hop entry: the first key of nh_data["distance"]
DistanceOf(h, nh_data) ==
    IF nh_data = NoneV \/ ~Has(h[nh_data], "distance") THEN "None"
    ELSE LET distance == Get(h[nh_data], "distance")
         IN IF distance = NoneV \/ Len(h[distance]) = 0 THEN "None"
            ELSE h[distance][1].k

\* [ex, routes]: None.get(...) and None.items() raise AttributeError
extract_static_routes(h, config) ==
    LET protocols == GetOrEmpty(h, config, "protocols")
        static_ == IF protocols = NoneV THEN NoneV
                   ELSE GetOrEmpty(h, protocols, "static")
        static == IF static_ = NoneV THEN NoneV
                  ELSE GetOrEmpty(h, static_, "route")
        items == IF static = NoneV THEN <<>> ELSE ItemsOf(h, static)
        NextHops(data) == GetOrEmpty(h, data, "next-hop")
        raises == \/ static = NoneV
                  \/ \E i \in 1..Len(items) :
                        \/ items[i].v = NoneV
                        \/ NextHops(items[i].v) = NoneV
        RoutesOf(i) == LET nhs == ItemsOf(h, NextHops(items[i].v))
                       IN [j \in 1..Len(nhs) |->
                             <<items[i].k, nhs[j].k, DistanceOf(h, nhs[j].v)>>]
        RECURSIVE Routes(_)
        Routes(i) == IF i > Len(items) THEN <<>> ELSE RoutesOf(i) \o Routes(i + 1)
    IN [ex |-> raises, routes |-> IF raises THEN <<>> ELSE Routes(1)]

\* template_ok: whether frr.conf.j2 loads and renders.  A template error is
\* caught inside, reported, and "" is returned.
generate_static_routes_config(h, config_dict, template_ok) ==
    LET x == extract_static_routes(h, config_dict)
    IN [ex |-> x.ex,
        rendered |-> IF x.ex \/ ~template_ok THEN "" ELSE "frr.conf",
        routes |-> x.routes]

----------------------------------------------------------------------------
(* handle_commit *)

\* running_config.clear(); running_config.update(merged_config);
\* candidate_config.clear()
\* InstallMerged as it would be without running_config.update(merged_config)
InstallMergedCleared(h, merged_config) ==
    [h EXCEPT ![RUNNING] = <<>>, ![CANDIDATE] = <<>>]

InstallMerged(h, merged_config) ==
    [h EXCEPT ![RUNNING] = h[merged_config], ![CANDIDATE] = <<>>]

\* [h, res, render]: any exception is caught, reported as "Error during
\* commit", and leaves what was written before it
handle_commit(h, template_ok) ==
    LET h0 == ShallowCopy(h, RUNNING)
        merged_config == Len(h0)
        paths_to_delete == get_full_path(h0, CANDIDATE, <<>>)
        d == ProcessDeletions(h0, merged_config, paths_to_delete, 1)
        a == IF d.ex THEN d ELSE process_additions(d.h, merged_config, CANDIDATE)
        g == generate_static_routes_config(a.h, merged_config, template_ok)
    IN IF a.ex
       THEN [h |-> a.h, res |-> "error", render |-> "none"]
       ELSE IF g.ex
       THEN [h |-> a.h, res |-> "error", render |-> "raised"]
       ELSE [h |-> InstallMerged(a.h, merged_config), res |-> "ok",
             render |-> IF g.rendered = "" THEN "failed" ELSE "rendered"]

----------------------------------------------------------------------------
(* compare_configs *)

\* get_all_paths: the leaf paths of a tree (None or {}), in item order.  The
\* code keys them by " ".join(path) and splits the key again; the tokens come
\* from user_input.split(), hold no whitespace, and so survive that.
RECURSIVE get_all_paths(_, _, _)
RECURSIVE AllPathItems(_, _, _, _)
AllPathItems(h, config, prefix, i) ==
    IF i > Len(h[config]) THEN <<>>
    ELSE LET current_path == Append(prefix, h[config][i].k)
             value == h[config][i].v
         IN (IF value = NoneV THEN <<[path |-> current_path, tomb |-> TRUE]>>
             ELSE IF Len(h[value]) = 0
             THEN <<[path |-> current_path, tomb |-> FALSE]>>
             ELSE get_all_paths(h, value, current_path))
            \o AllPathItems(h, config, prefix, i + 1)

get_all_paths(h, config, prefix) == AllPathItems(h, config, prefix, 1)

\* lines 492-499: the "- delete" and "+ set" lines, each in candidate order
CommandLines(h, candidate_paths, running_paths, want_deleted) ==
    LET Keep(e) ==
            IF e.tomb
            THEN want_deleted /\ get_nested_value(h, RUNNING, e.path, 1) # NoneV
            ELSE /\ ~want_deleted
                 /\ ~\E j \in 1..Len(running_paths) : running_paths[j].path = e.path
    IN SelectSeq(candidate_paths, Keep)

\* format_dict: one line per key, [indent, mark, key]; mark is "-" for a key
\* being deleted, "+" for a leaf, ":" for a key with children
RECURSIVE format_dict(_, _, _)
RECURSIVE FormatItems(_, _, _, _)
FormatItems(h, d, indent, i) ==
    IF i > Len(h[d]) THEN <<>>
    ELSE LET k == h[d][i].k
             v == h[d][i].v
         IN (IF v = NoneV THEN <<[indent |-> indent, mark |-> "-", key |-> k]>>
             ELSE IF Len(h[v]) = 0
             THEN <<[indent |-> indent, mark |-> "+", key |-> k]>>
             ELSE <<[indent |-> indent, mark |-> ":", key |-> k]>>
                  \o format_dict(h, v, indent + 1))
            \o FormatItems(h, d, indent, i + 1)

format_dict(h, d, indent) == FormatItems(h, d, indent, 1)

NoOutput ==
    [mode |-> "none", deleted |-> <<>>, added |-> <<>>, lines |-> <<>>,
     scripts |-> <<>>, restore |-> <<>>, walk |-> <<>>]

\* what compare prints
\*   mode "empty"     "No changes to commit (candidate configuration is empty)"
\*   mode "commands"  the deleted and the added command lines
\*   mode "raw"       the lines of format_dict(candidate_config)
compare_configs(h, as_commands) ==
    IF Len(h[CANDIDATE]) = 0 THEN [NoOutput EXCEPT !.mode = "empty"]
    ELSE LET running_paths == get_all_paths(h, RUNNING, <<>>)
             candidate_paths == get_all_paths(h, CANDIDATE, <<>>)
         IN IF as_commands
            THEN [NoOutput EXCEPT
                     !.mode = "commands",
                     !.deleted = CommandLines(h, candidate_paths, running_paths, TRUE),
                     !.added = CommandLines(h, candidate_paths, running_paths, FALSE)]
            ELSE [NoOutput EXCEPT !.mode = "raw",
                                  !.lines = format_dict(h, CANDIDATE, 0)]

\* parts[1:] are the tokens after `compare`
handle_compare_command(h, args) ==
    compare_configs(h, Len(args) > 0 /\ args[1] = "commands")

----------------------------------------------------------------------------
(* get_commit_scripts.py: get_scripts_to_run *)

\* A schema document (config.json): a node is its 'script' field (NoScript
\* when it has none) and its child nodes in document order
NoScript == ""

SNode(script, kids) == [script |-> script, kids |-> kids]

\* the schema documents get_scripts_to_run is applied to: a script on each
\* protocol (as in "a script bound at protocols.static"); a script below a
\* protocol; one script on two protocols; scripts on nested nodes
SchemaProtocols ==
    SNode(NoScript, <<
        [k |-> "protocols", v |-> SNode(NoScript, <<
            [k |-> "static", v |-> SNode("static.py", <<
                [k |-> "route", v |-> SNode(NoScript, <<>>)]>>)],
            [k |-> "bgp", v |-> SNode("bgp.py", <<>>)]>>)]>>)

SchemaBelow ==
    SNode(NoScript, <<
        [k |-> "protocols", v |-> SNode(NoScript, <<
            [k |-> "static", v |-> SNode(NoScript, <<
                [k |-> "route", v |-> SNode("static.py", <<>>)]>>)],
            [k |-> "bgp", v |-> SNode("bgp.py", <<>>)]>>)]>>)

SchemaShared ==
    SNode(NoScript, <<
        [k |-> "protocols", v |-> SNode(NoScript, <<
            [k |-> "static", v |-> SNode("frr.py", <<
                [k |-> "route", v |-> SNode(NoScript, <<>>)]>>)],
            [k |-> "bgp", v |-> SNode("frr.py", <<>>)]>>)]>>)

SchemaNested ==
    SNode(NoScript, <<
        [k |-> "protocols", v |-> SNode("protocols.py", <<
            [k |-> "static", v |-> SNode("static.py", <<
                [k |-> "route", v |-> SNode("static.py", <<>>)]>>)],
            [k |-> "bgp", v |-> SNode(NoScript, <<>>)]>>)]>>)

Schemas == {SchemaProtocols, SchemaBelow, SchemaShared, SchemaNested}

\* get_candidate_paths: every path of the tree, tombstones included, parents
\* before children
RECURSIVE get_candidate_paths(_, _, _)
RECURSIVE CandidatePathItems(_, _, _, _)
CandidatePathItems(h, config, current_path, i) ==
    IF i > Len(h[config]) THEN <<>>
    ELSE LET new_path == Append(current_path, h[config][i].k)
             value == h[config][i].v
         IN <<new_path>>
            \o (IF value = NoneV THEN <<>> ELSE get_candidate_paths(h, value, new_path))
            \o CandidatePathItems(h, config, current_path, i + 1)

get_candidate_paths(h, config, current_path) ==
    CandidatePathItems(h, config, current_path, 1)

\* find_script_paths: the paths of the schema nodes with a 'script' field, a
\* node before its children, children in document order
RECURSIVE find_script_paths(_, _)
RECURSIVE ScriptPathItems(_, _, _)
ScriptPathItems(config, current_path, i) ==
    IF i > Len(config.kids) THEN <<>>
    ELSE find_script_paths(config.kids[i].v, Append(current_path, config.kids[i].k))
         \o ScriptPathItems(config, current_path, i + 1)

find_script_paths(config, current_path) ==
    (IF config.script # NoScript THEN <<current_path>> ELSE <<>>)
    \o ScriptPathItems(config, current_path, 1)

\* current = main_config; for part in script_path: current = current[part];
\* current['script']
RECURSIVE ScriptAt(_, _, _)
ScriptAt(config, script_path, i) ==
    IF i > Len(script_path) THEN config.script
    ELSE LET j == CHOOSE j \in 1..Len(config.kids) : config.kids[j].k = script_path[i]
         IN ScriptAt(config.kids[j].v, script_path, i + 1)

\* find_deletion_paths: the paths that hold None
RECURSIVE find_deletion_paths(_, _, _)
RECURSIVE DeletionPathItems(_, _, _, _)
DeletionPathItems(h, config, current_path, i) ==
    IF i > Len(h[config]) THEN <<>>
    ELSE LET value == h[config][i].v
             path == Append(current_path, h[config][i].k)
         IN (IF value = NoneV THEN <<path>> ELSE find_deletion_paths(h, value, path))
            \o DeletionPathItems(h, config, current_path, i + 1)

find_deletion_paths(h, config, current_path) ==
    DeletionPathItems(h, config, current_path, 1)

\* len(path) >= len(prefix) and path[:len(prefix)] == prefix
StartsWith(path, prefix) ==
    Len(path) >= Len(prefix) /\ SubSeq(path, 1, Len(prefix)) = prefix

\* AppendOnce as it would be without the `not in scripts` test
AppendAlways(scripts, script) == Append(scripts, script)

\* if current['script'] not in scripts: scripts.append(current['script'])
AppendOnce(scripts, script) ==
    IF \E i \in 1..Len(scripts) : scripts[i] = script THEN scripts
    ELSE Append(scripts, script)

\* lines 62-72: the scripts whose path some candidate path starts with
RECURSIVE EditScripts(_, _, _, _, _)
EditScripts(schema, script_paths, candidate_paths, scripts, i) ==
    IF i > Len(script_paths) THEN scripts
    ELSE EditScripts(schema, script_paths, candidate_paths,
                     IF \E j \in 1..Len(candidate_paths) :
                           StartsWith(candidate_paths[j], script_paths[i])
                     THEN AppendOnce(scripts, ScriptAt(schema, script_paths[i], 1))
                     ELSE scripts,
                     i + 1)

\* lines 112-122: "yes" when running holds a non-empty dict at script_path,
\* "raise" when the walk meets None before the end (`part in None`)
RECURSIVE HasConfig(_, _, _, _)
HasConfig(h, current, script_path, i) ==
    IF i > Len(script_path)
    THEN IF current # NoneV /\ Len(h[current]) > 0 THEN "yes" ELSE "no"
    ELSE IF current = NoneV THEN "raise"
    ELSE IF Has(h[current], script_path[i])
         THEN HasConfig(h, Get(h[current], script_path[i]), script_path, i + 1)
    ELSE "no"

\* MatchingDeletion as it would be if the loop stopped after its first
\* deletion path whether or not it matched
MatchingDeletionFirstOnly(script_path, deletion_paths) ==
    IF /\ Len(deletion_paths) > 0
       /\ \/ StartsWith(deletion_paths[1], script_path)
          \/ StartsWith(script_path, deletion_paths[1])
    THEN 1 ELSE 0

\* lines 95-141: the first deletion path at which the inner loop breaks, 0
\* when it runs to its end
MatchingDeletion(script_path, deletion_paths) ==
    LET hits == {j \in 1..Len(deletion_paths) :
                    \/ StartsWith(deletion_paths[j], script_path)
                    \/ StartsWith(script_path, deletion_paths[j])}
    IN IF hits = {} THEN 0 ELSE CHOOSE j \in hits : \A q \in hits : j <= q

\* lines 94-141; running_config is NoneV when the caller passes no running
\* configuration
RECURSIVE DeletionScripts(_, _, _, _, _, _, _)
DeletionScripts(h, schema, running_config, script_paths, deletion_paths, scripts, i) ==
    IF i > Len(script_paths) THEN [ex |-> FALSE, scripts |-> scripts]
    ELSE
      LET script_path == script_paths[i]
          j == MatchingDeletion(script_path, deletion_paths)
          script == ScriptAt(schema, script_path, 1)
          has_config == IF running_config = NoneV THEN "yes"
                        ELSE HasConfig(h, running_config, script_path, 1)
          Continue(next) ==
              DeletionScripts(h, schema, running_config, script_paths,
                              deletion_paths, next, i + 1)
      IN IF j = 0 THEN Continue(scripts)
         ELSE IF StartsWith(deletion_paths[j], script_path)
              THEN Continue(AppendOnce(scripts, script))
         ELSE IF has_config = "raise" THEN [ex |-> TRUE, scripts |-> <<>>]
         ELSE IF has_config = "yes" THEN Continue(AppendOnce(scripts, script))
         ELSE Continue(scripts)

\* [ex, scripts]
get_scripts_to_run(h, schema, candidate_config, running_config) ==
    LET candidate_paths == get_candidate_paths(h, candidate_config, <<>>)
        script_paths == find_script_paths(schema, <<>>)
        scripts == EditScripts(schema, script_paths, candidate_paths, <<>>, 1)
        deletion_paths == find_deletion_paths(h, candidate_config, <<>>)
    IN DeletionScripts(h, schema, running_config, script_paths, deletion_paths,
                       scripts, 1)

\* The configurations get_scripts_to_run is applied to: the trees a list of
\* at most MaxEntries entries builds, each entry a path and whether it holds
\* a tombstone, inserted in order
MaxEntries == 2

ConfigPaths ==
    {SubSeq(RouteBase \o <<"10.1.0.0/16">>, 1, n) : n \in 1..4}
    \cup {<<"protocols", "bgp">>}

RECURSIVE InsertEntry(_, _, _, _)
InsertEntry(h, current, e, i) ==
    LET k == e.path[i]
        present == Has(h[current], k) /\ Get(h[current], k) # NoneV
        h1 == IF present THEN h ELSE SetNew(h, current, k)
    IN IF i < Len(e.path) THEN InsertEntry(h1, Get(h1[current], k), e, i + 1)
       ELSE IF e.tomb THEN SetItem(h, current, k, NoneV)
       ELSE h1

RECURSIVE InsertEntries(_, _, _, _)
InsertEntries(h, root, entries, i) ==
    IF i > Len(entries) THEN h
    ELSE InsertEntries(InsertEntry(h, root, entries[i], 1), root, entries, i + 1)

EntryLists(tombs) ==
    UNION {[1..n -> [path : ConfigPaths, tomb : tombs]] : n \in 0..MaxEntries}

\* running holds no tombstone; candidate may
RunningInputs == EntryLists({FALSE})
CandidateInputs == EntryLists({FALSE, TRUE})

ConfigPair(running, candidate) ==
    Collect(InsertEntries(InsertEntries(<<<<>>, <<>>>>, RUNNING, running, 1),
                          CANDIDATE, candidate, 1))

----------------------------------------------------------------------------
(* router-config.json: a file is the JSON text of a tree, kept as the list *)
(* of the tree's leaves in the order of the text, an empty map or null     *)

NoFile == [exists |-> FALSE, entries |-> <<>>]

File(entries) == [exists |-> TRUE, entries |-> entries]

\* the saved files a process starts with
SavedConfigs ==
    {NoFile, File(<<[path |-> RoutePath("10.1.0.0/16", HopNames[1]), tomb |-> FALSE]>>)}

\* load_saved_config as it would be if it found no file
load_saved_config_missing(saved) == <<<<>>, <<>>>>

\* lines 39-49: json.load builds the tree of the text, {} without a file
load_saved_config(saved) ==
    IF saved.exists
    THEN Collect(InsertEntries(<<<<>>, <<>>>>, RUNNING, saved.entries, 1))
    ELSE <<<<>>, <<>>>>

RECURSIVE json_dump(_, _, _, _)
\* json.dump(config_dict): the items of the dict in their order, a nested
\* dict written in place
json_dump(h, o, pre, i) ==
    IF i > Len(h[o]) THEN <<>>
    ELSE LET p == Append(pre, h[o][i].k)
             v == h[o][i].v
         IN (IF v = NoneV THEN <<[path |-> p, tomb |-> TRUE]>>
             ELSE IF Len(h[v]) = 0 THEN <<[path |-> p, tomb |-> FALSE]>>
             ELSE json_dump(h, v, p, 1))
            \o json_dump(h, o, pre, i + 1)

\* lines 51-58
save_current_config(h, config_dict) == File(json_dump(h, config_dict, <<>>, 1))



----------------------------------------------------------------------------
(* The command tree (commands_json).  A node is a Python dict: the model   *)
(* keeps the reserved keys a walk reads as fields and the dict-valued      *)
(* items, in insertion order, as kids.  Descriptions are not kept.  A      *)
(* token that names a reserved key a node holds is a key of the dict like  *)
(* any other: `part in node` is true of it and node[part] is the value     *)
(* stored there, a str or a list (NonNode).                                *)

TreeNode(type, validator, kids) ==
    [type |-> type, validator |-> validator, enum |-> <<>>, suggestor |-> "",
     command |-> "", kids |-> kids]

\* a static node carries no "type" key; populate_config_tree writes "node"
StaticNode(kids) == TreeNode("", "", kids)

TagNode(validator, kids) == TreeNode("tagNode", validator, kids)

\* the reserved keys a node holds, among those the model keeps
ReservedKeys(node) ==
    {k \in {"type", "validator", "enum-values", "suggestor", "command"} :
        CASE k = "type" -> node.type # ""
          [] k = "validator" -> node.validator # ""
          [] k = "enum-values" -> node.enum # <<>>
          [] k = "suggestor" -> node.suggestor # ""
          [] k = "command" -> node.command # ""}

\* the value of a reserved key: it is not a dict, and a walk that takes one
\* more step from it raises (AttributeError: no items, no get; TypeError
\* where the token occurs in the value, which a token does not index)
NonNode == TreeNode("non-node", "", <<>>)

\* part in node
HasKey(node, part) == Has(node.kids, part) \/ part \in ReservedKeys(node)

\* node[part]
Child(node, part) ==
    IF Has(node.kids, part) THEN Get(node.kids, part) ELSE NonNode

Item(k, v) == [k |-> k, v |-> v]

\* config.json: the configuration schema
ConfigSchema ==
    <<Item("protocols", StaticNode(<<
        Item("static", StaticNode(<<
            Item("route", StaticNode(<<
                Item("<prefix>", TagNode("ip-prefix", <<
                    Item("next-hop", StaticNode(<<
                        Item("<address>", TagNode("ip-address", <<
                            Item("distance", StaticNode(<<
                                Item("<distance>", TagNode("num-1-255", <<>>))
                            >>))
                        >>))
                    >>))
                >>))
            >>))
        >>)),
        Item("bgp", StaticNode(<<>>))
    >>))>>

\* commands.json: what each action holds before the schema is merged in
CommandsDocument ==
    [set |-> <<>>, delete |-> <<>>, show |-> <<>>,
     rest |-> <<Item("compare", StaticNode(<<Item("commands", StaticNode(<<>>))>>)),
                Item("commit", StaticNode(<<>>)),
                Item("save", StaticNode(<<>>)),
                Item("discard", StaticNode(<<>>)),
                Item("exit", StaticNode(<<>>))>>]

RECURSIVE UpdateKids(_, _, _)
\* d.update(other)
UpdateKids(d, other, i) ==
    IF i > Len(other) THEN d
    ELSE UpdateKids(Put(d, other[i].k, other[i].v), other, i + 1)

\* lines 72-73: update() copies references, so commands["set"][k] and
\* commands["delete"][k] are one object for every key k of the schema;
\* `shared` names the keys for which that still holds, and for them the two
\* values are kept equal
load_commands_json ==
    [set |-> UpdateKids(CommandsDocument.set, ConfigSchema, 1),
     delete |-> UpdateKids(CommandsDocument.delete, ConfigSchema, 1),
     show |-> CommandsDocument.show,
     rest |-> CommandsDocument.rest,
     shared |-> {ConfigSchema[i].k : i \in 1..Len(ConfigSchema)},
     kept |-> TRUE]

\* a session of which the command tree is not kept
NoTree == [kept |-> FALSE]

\* commands_json as the dict a walk starts from
RootNode(cj) ==
    StaticNode(<<Item("set", StaticNode(cj.set)),
                 Item("delete", StaticNode(cj.delete)),
                 Item("show", StaticNode(cj.show))>> \o cj.rest)

RECURSIVE PopulateItems(_, _, _, _, _)
\* lines 269-272 and 277-280: show_tree[key] = {"description", "type": "node"}
\* for every key (skip_none: but those holding None), filled from the value
PopulateItems(h, config, show_tree, skip_none, i) ==
    IF i > Len(h[config]) THEN show_tree
    ELSE LET key == h[config][i].k
             value == h[config][i].v
         IN IF skip_none /\ value = NoneV
            THEN PopulateItems(h, config, show_tree, skip_none, i + 1)
            ELSE PopulateItems(h, config,
                     Put(show_tree, key,
                         TreeNode("node", "",
                                  IF value = NoneV THEN <<>>
                                  ELSE PopulateItems(h, value, <<>>, FALSE, 1))),
                     skip_none, i + 1)

RECURSIVE MergeKids(_, _, _)
\* lines 261-266; between two nodes the "type" key is itself merged: it is
\* written where tree1 has none
MergeKids(tree1, tree2, i) ==
    IF i > Len(tree2) THEN tree1
    ELSE LET key == tree2[i].k
             value == tree2[i].v
         IN IF ~Has(tree1, key)
            THEN MergeKids(Put(tree1, key, value), tree2, i + 1)
            ELSE MergeKids(
                     Put(tree1, key,
                         [Get(tree1, key) EXCEPT
                            !.type = IF @ = "" THEN value.type ELSE @,
                            !.kids = MergeKids(@, value.kids, 1)]),
                     tree2, i + 1)

\* the two calls that follow a command (lines 565-566, 586-587, 595-596,
\* 613-614, 619-620): the show tree from running, the delete tree from
\* running and candidate.  A key of running is rebound in the delete tree
\* to a new node; merge_trees writes through any other key into the node
\* it holds, the schema node of the set tree while the key is shared
populate_config_tree(h, cj) ==
    LET show == PopulateItems(h, RUNNING, cj.show, FALSE, 1)
        shared == cj.shared \ {h[RUNNING][i].k : i \in 1..Len(h[RUNNING])}
        delete1 == PopulateItems(h, RUNNING, cj.delete, FALSE, 1)
        delete2 == IF Len(h[CANDIDATE]) = 0 THEN delete1
                   ELSE MergeKids(delete1,
                                  PopulateItems(h, CANDIDATE, <<>>, TRUE, 1), 1)
    IN [cj EXCEPT
          !.show = show,
          !.delete = delete2,
          !.shared = shared,
          !.set = [i \in 1..Len(cj.set) |->
                     IF cj.set[i].k \in shared
                     THEN Item(cj.set[i].k, Get(delete2, cj.set[i].k))
                     ELSE cj.set[i]]]

----------------------------------------------------------------------------
(* Validators (validators.py) and the walks of a command line *)

\* what each validator function answers true to, among the tokens drawn
AcceptedBy ==
    [v \in {"ip-address", "ip-prefix", "num-1-255"} |->
        CASE v = "ip-address" -> {HopNames[i] : i \in 1..Len(HopNames)}
          [] v = "ip-prefix" -> Prefixes \cup {HopNames[i] : i \in 1..Len(HopNames)}
          [] v = "num-1-255" -> {"5"}]

\* the first item whose value is a tagNode, 0 if there is none
TagEntry(node) ==
    IF \E i \in 1..Len(node.kids) : node.kids[i].v.type = "tagNode"
    THEN CHOOSE i \in 1..Len(node.kids) :
            /\ node.kids[i].v.type = "tagNode"
            /\ \A j \in 1..(i - 1) : node.kids[j].v.type # "tagNode"
    ELSE 0

RECURSIVE validate(_, _, _)
\* CommandValidator.validate: 0 if it returns, the index of the token it
\* raises a ValidationError for, and 0 - i where the step for token i
\* raises another error, node being no dict
validate(node, parts, i) ==
    IF i > Len(parts) THEN 0
    ELSE IF node = NonNode THEN 0 - i
    ELSE IF HasKey(node, parts[i])
    THEN validate(Child(node, parts[i]), parts, i + 1)
    ELSE IF TagEntry(node) = 0 THEN 0
    ELSE LET tag_node == node.kids[TagEntry(node)].v
             validator_type == tag_node.validator
             known == IF validator_type = "enum" THEN TRUE
                      ELSE validator_type \in DOMAIN AcceptedBy
             passes == IF validator_type = "enum"
                       THEN \E e \in 1..Len(tag_node.enum) : tag_node.enum[e] = parts[i]
                       ELSE parts[i] \in AcceptedBy[validator_type]
         IN IF validator_type # "" /\ known /\ ~passes THEN i
            ELSE validate(tag_node, parts, i + 1)

RECURSIVE Rollback(_, _, _, _)
\* lines 626-638: rollback_index
Rollback(node, parts, i, rollback_index) ==
    IF i > Len(parts) THEN rollback_index
    ELSE IF Has(node.kids, parts[i])
    THEN Rollback(Get(node.kids, parts[i]), parts, i + 1, i)
    ELSE IF TagEntry(node) = 0 THEN rollback_index
    ELSE Rollback(node.kids[TagEntry(node)].v, parts, i + 1, i - 1)

\* line 639: the tokens of restore_text
restore_text(root, parts) == SubSeq(parts, 1, Rollback(root, parts, 1, 0))

RECURSIVE parse_walk(_, _, _)
\* lines 141-155, the walk of parse_config_command: what it raises and for
\* which token of path_parts.  validators["enum"] is None, and calling it
\* is a TypeError; a token that matches nothing leaves node where it is
parse_walk(node, path_parts, i) ==
    IF i > Len(path_parts) THEN [ex |-> "none", at |-> 0]
    ELSE IF node = NonNode THEN [ex |-> "NonNodeError", at |-> i]
    ELSE IF HasKey(node, path_parts[i])
    THEN parse_walk(Child(node, path_parts[i]), path_parts, i + 1)
    ELSE IF TagEntry(node) = 0 THEN parse_walk(node, path_parts, i + 1)
    ELSE LET tag_node == node.kids[TagEntry(node)].v
             validator_type == tag_node.validator
         IN IF validator_type = "enum" THEN [ex |-> "TypeError", at |-> i]
            ELSE IF /\ validator_type \in DOMAIN AcceptedBy
                    /\ path_parts[i] \notin AcceptedBy[validator_type]
            THEN [ex |-> "ValidationError", at |-> i]
            ELSE parse_walk(tag_node, path_parts, i + 1)

\* lines 118-121 return before the walk; line 115: node = root
parse_errors(root, action, path_parts) ==
    IF /\ action = "set"
       /\ \E i \in 1..Len(path_parts) : path_parts[i] = "next-hop"
       /\ NextHopIndex(path_parts) < Len(path_parts)
    THEN [ex |-> "none", at |-> 0]
    ELSE parse_walk(root, path_parts, 1)

\* line 600
Parts(action, p) == <<action>> \o p

\* lines 603-608: what the validator, and after it the parser, raises
Raised(cj, action, p) ==
    IF ~cj.kept THEN "none"
    ELSE IF validate(RootNode(cj), Parts(action, p), 1) > 0 THEN "ValidationError"
    ELSE IF validate(RootNode(cj), Parts(action, p), 1) < 0 THEN "NonNodeError"
    ELSE IF action = "compare" THEN "none"
    ELSE parse_errors(RootNode(cj), action, p).ex

----------------------------------------------------------------------------
(* The command loop of main: one operator per command, from the heap before *)
(* the command to the heap after it and what the command reported          *)

Outcome(h, res, render) == [h |-> Collect(h), res |-> res, render |-> render]

\* lines 608-615
DoSet(h, p) ==
    LET pr == parse_config_command(h, "set", p)
        r == update_config_dict(pr.h, CANDIDATE, pr.root)
    IN Outcome(r.h, IF r.ex THEN "crash" ELSE "ok", "none")

\* lines 608, 616-620
DoDelete(h, p) ==
    LET pr == parse_config_command(h, "delete", p)
        r == handle_delete_command(pr.h, pr.root)
    IN Outcome(r.h, r.res, "none")

\* lines 621-622
DoShow(h, args) ==
    LET r == show_subtree(h, args)
    IN Outcome(r.h, r.res, "none")

\* lines 582-587
DoCommit(h, template_ok) ==
    LET r == handle_commit(h, template_ok)
    IN Outcome(r.h, r.res, r.render)

\* DoDiscard as it would be if it cleared both configurations
DoDiscardBoth(h) ==
    Outcome([h EXCEPT ![RUNNING] = <<>>, ![CANDIDATE] = <<>>], "ok", "none")

\* lines 591-597: candidate_config.clear()
DoDiscard(h) == Outcome([h EXCEPT ![CANDIDATE] = <<>>], "ok", "none")

----------------------------------------------------------------------------
(* State *)

\* last:  the command just run (op, args) and what it reported (res, render)
\* track: what the last two commands amount to, for the properties that are
\*        about a command following another
\*   "set"           set P, on an empty candidate
\*   "set_delete"    that, then delete P
\*   "delete"        delete P, with P present in running
\*   "delete_commit" that, then a commit that rendered and succeeded
\*   "empty_commit"  commit, on an empty candidate
\*   "staged_commit" a commit that rendered and succeeded, on a candidate
\*                   that held changes
\*   "delete_twice"  delete P that wrote a tombstone, then delete P again
\*   "delete_compare" delete P with P present in running, then compare
\*   "discard_staged" discard, on a candidate that held changes
\*   "unsaved_exit"  exit, with a running configuration that is not the
\*                   one of the saved file
\*   "unsaved_configure" that, then configure
\* track.fresh: the candidate was empty before the first of the commands

Cmd(op, args, r) ==
    [op |-> op, args |-> args, res |-> r.res, render |-> r.render, out |-> NoOutput]

NoTrack == [kind |-> "none", path |-> <<>>, fresh |-> FALSE]

Track(kind, path) == [kind |-> kind, path |-> path, fresh |-> FALSE]

\* q and p are <prefix> next-hop <value> paths of one prefix with two values
OtherNextHop(q, p) ==
    /\ Len(p) = Len(q) /\ Len(p) >= 3
    /\ p[Len(p) - 1] = "next-hop"
    /\ SubSeq(p, 1, Len(p) - 1) = SubSeq(q, 1, Len(q) - 1)
    /\ p # q

Prompt(res) == IF res = "crash" THEN "crashed" ELSE "prompt"

\* the path holds a value other than None
Exists(h, root, path) == get_nested_value(h, root, path, 1) # NoneV

\* lines 586-587, 595-596, 613-614 and 619-620, which are not reached when
\* the command raised
Refresh(r, cj) ==
    IF ~cj.kept \/ r.res = "crash" THEN cj ELSE populate_config_tree(r.h, cj)

Init ==
    /\ saved_file \in SavedConfigs
    /\ heap = load_saved_config(saved_file)
    /\ pc = "prompt"
    /\ last = [op |-> "start", args |-> <<>>, res |-> "ok", render |-> "none",
               out |-> NoOutput]
    /\ track = NoTrack
    /\ main_config = SchemaProtocols
    /\ commands_json = NoTree

Set(p) ==
    /\ pc = "prompt"
    /\ Raised(commands_json, "set", p) = "none"
    /\ UNCHANGED <<main_config, saved_file>>
    /\ \E r \in {DoSet(heap, p)} :
          /\ heap' = r.h
          /\ pc' = Prompt(r.res)
          /\ last' = Cmd("set", p, r)
          /\ commands_json' = Refresh(r, commands_json)
    /\ track' = IF Len(heap[CANDIDATE]) = 0 THEN Track("set", p)
                ELSE IF track.kind = "set" /\ OtherNextHop(track.path, p)
                THEN Track("set_again", track.path)
                ELSE NoTrack

Delete(p) ==
    /\ pc = "prompt"
    /\ Raised(commands_json, "delete", p) = "none"
    /\ UNCHANGED <<main_config, saved_file>>
    /\ \E r \in {DoDelete(heap, p)} :
          /\ heap' = r.h
          /\ pc' = Prompt(r.res)
          /\ last' = Cmd("delete", p, r)
          /\ commands_json' = Refresh(r, commands_json)
    /\ track' = IF track = Track("set", p) THEN Track("set_delete", p)
                ELSE IF last.op = "delete" /\ last.res = "marked" /\ last.args = p
                THEN Track("delete_twice", p)
                ELSE IF Exists(heap, RUNNING, p)
                THEN [Track("delete", p) EXCEPT !.fresh = (Len(heap[CANDIDATE]) = 0)]
                ELSE NoTrack

Show(args) ==
    /\ pc = "prompt"
    /\ Raised(commands_json, "show", args) = "none"
    /\ UNCHANGED <<main_config, commands_json, saved_file>>
    /\ \E r \in {DoShow(heap, args)} :
          /\ heap' = r.h
          /\ pc' = Prompt(r.res)
          /\ last' = Cmd("show", args, r)
    /\ track' = NoTrack

\* lines 604-606: compare_configs only prints
Compare(args) ==
    /\ pc = "prompt"
    /\ Raised(commands_json, "compare", args) = "none"
    /\ UNCHANGED <<main_config, commands_json, saved_file>>
    /\ heap' = heap
    /\ pc' = pc
    /\ last' = [op |-> "compare", args |-> args, res |-> "printed", render |-> "none",
                out |-> handle_compare_command(heap, args)]
    /\ track' = IF track.kind = "delete"
                THEN [track EXCEPT !.kind = "delete_compare"]
                ELSE NoTrack

Commit(template_ok) ==
    /\ pc = "prompt"
    /\ UNCHANGED <<main_config, saved_file>>
    /\ \E r \in {DoCommit(heap, template_ok)} :
          /\ heap' = r.h
          /\ pc' = pc
          /\ last' = Cmd("commit", <<>>, r)
          /\ commands_json' = Refresh(r, commands_json)
          /\ track' = IF track.kind = "delete" /\ r.res = "ok" /\ r.render = "rendered"
                      THEN Track("delete_commit", track.path)
                      ELSE IF Len(heap[CANDIDATE]) = 0 THEN Track("empty_commit", <<>>)
                      ELSE IF r.res = "ok" /\ r.render = "rendered"
                      THEN Track("staged_commit", <<>>)
                      ELSE NoTrack

Discard ==
    /\ pc = "prompt"
    /\ UNCHANGED <<main_config, saved_file>>
    /\ \E r \in {DoDiscard(heap)} :
          /\ heap' = r.h
          /\ pc' = pc
          /\ last' = Cmd("discard", <<>>, r)
          /\ commands_json' = Refresh(r, commands_json)
    /\ track' = IF Len(heap[CANDIDATE]) > 0 THEN Track("discard_staged", <<>>)
                ELSE NoTrack

\* Rejected as it would be if the line were validated after it was applied
RejectedAfterApplied(action, p) ==
    /\ pc = "prompt"
    /\ Raised(commands_json, action, p) = "ValidationError"
    /\ heap' = IF action = "set" THEN DoSet(heap, p).h
               ELSE IF action = "delete" THEN DoDelete(heap, p).h
               ELSE heap
    /\ last' = [op |-> "rejected", args |-> Parts(action, p),
                res |-> "ValidationError", render |-> "none",
                out |-> [NoOutput EXCEPT
                           !.mode = "error",
                           !.restore = restore_text(RootNode(commands_json),
                                                    Parts(action, p))]]
    /\ track' = NoTrack
    /\ UNCHANGED <<pc, main_config, commands_json, saved_file>>

\* lines 624-640: the ValidationError is reported and the prompt is given
\* restore_text; any other exception ends the loop
Rejected(action, p) ==
    /\ pc = "prompt"
    /\ Raised(commands_json, action, p) # "none"
    /\ \E ex \in {Raised(commands_json, action, p)} :
          /\ pc' = IF ex = "ValidationError" THEN pc ELSE "crashed"
          /\ last' = [op |-> "rejected", args |-> Parts(action, p), res |-> ex,
                      render |-> "none",
                      out |-> IF ex = "ValidationError"
                              THEN [NoOutput EXCEPT
                                      !.mode = "error",
                                      !.restore = restore_text(RootNode(commands_json),
                                                               Parts(action, p))]
                              ELSE NoOutput]
    /\ track' = NoTrack
    /\ UNCHANGED <<heap, main_config, commands_json, saved_file>>

\* lines 603-622 for a first token that is none of the actions: the line
\* passes the validator and the parser, and no branch of the dispatch takes it
Other(action, p) ==
    /\ pc = "prompt"
    /\ action \notin {"set", "delete", "show", "compare"}
    /\ Raised(commands_json, action, p) = "none"
    /\ last' = [op |-> "other", args |-> Parts(action, p), res |-> "nothing",
                render |-> "none", out |-> NoOutput]
    /\ track' = NoTrack
    /\ UNCHANGED <<heap, pc, main_config, commands_json, saved_file>>

Next ==
    \/ \E p \in PathParts : Set(p)
    \/ \E p \in PathParts : Delete(p)
    \/ \E args \in ShowForms \cup PathParts : Show(args)
    \/ \E args \in {<<>>, <<"commands">>} : Compare(args)
    \/ \E template_ok \in BOOLEAN : Commit(template_ok)
    \/ Discard

Spec == Init /\ [][Next]_vars

----------------------------------------------------------------------------
(* The command loop with its command tree, over lines that name one route  *)
(* and over lines with a token no validator accepts                        *)

ShellRoute == RoutePath("10.1.0.0/16", HopNames[1])

\* a set line with tokens after the next-hop value
DistancePath == ShellRoute \o <<"distance", "5">>

ShellPaths == {SubSeq(ShellRoute, 1, n) : n \in {3, 4, 6}}

\* token paths with a token no validator accepts
BadPaths ==
    {RouteBase \o <<"BAD">>,
     RouteBase \o <<"BAD", "next-hop", HopNames[1]>>,
     RouteBase \o <<"10.1.0.0/16", "next-hop", "BAD">>}

ShellInit ==
    /\ saved_file \in SavedConfigs
    /\ heap = load_saved_config(saved_file)
    /\ pc = "prompt"
    /\ last = [op |-> "start", args |-> <<>>, res |-> "ok", render |-> "none",
               out |-> NoOutput]
    /\ track = NoTrack
    /\ main_config = SchemaProtocols
    /\ commands_json = populate_config_tree(heap, load_commands_json)

ShellNext ==
    \/ \E p \in ShellPaths \cup BadPaths \cup {DistancePath} : Set(p)
    \/ \E p \in ShellPaths \cup {RouteBase \o <<"BAD">>} : Delete(p)
    \/ \E args \in {<<>>, RouteBase \o <<"BAD">>} : Show(args)
    \/ Compare(<<"commands">>)
    \/ Commit(TRUE)
    \/ Discard
    \/ \E action \in {"set", "delete", "show"}, p \in BadPaths : Rejected(action, p)
    \/ \E p \in {<<>>, RouteBase} : Other("bogus", p)

ShellSpec == ShellInit /\ [][ShellNext]_vars

----------------------------------------------------------------------------
(* The process from its operational prompt (mainCLI.py: main): configure   *)
(* calls configCli.main, which ends at exit, and the file is what a        *)
(* configuration session leaves to the next one                            *)

\* lines 588-590
Save ==
    /\ pc = "prompt"
    /\ \E file \in {save_current_config(heap, RUNNING)} :
          /\ saved_file' = file
          /\ last' = [op |-> "save", args |-> <<>>, res |-> "ok", render |-> "none",
                      out |-> NoOutput]
    /\ track' = NoTrack
    /\ UNCHANGED <<heap, pc, main_config, commands_json>>

\* lines 580-581 and 648-649: main returns, and its two dicts are released
Exit ==
    /\ pc = "prompt"
    /\ pc' = "operational"
    /\ heap' = <<<<>>, <<>>>>
    /\ last' = [op |-> "exit", args |-> <<>>, res |-> "ok", render |-> "none",
                out |-> NoOutput]
    /\ track' = IF json_dump(heap, RUNNING, <<>>, 1) # saved_file.entries
                THEN Track("unsaved_exit", <<>>)
                ELSE NoTrack
    /\ UNCHANGED <<main_config, commands_json, saved_file>>

\* mainCLI.py lines 94-96 and configCli.py lines 555-566
Configure ==
    /\ pc = "operational"
    /\ \E r \in {load_saved_config(saved_file)} :
          /\ heap' = r
          /\ commands_json' = IF commands_json.kept
                              THEN populate_config_tree(r, load_commands_json)
                              ELSE commands_json
    /\ pc' = "prompt"
    /\ last' = [op |-> "configure", args |-> <<>>, res |-> "ok", render |-> "none",
                out |-> NoOutput]
    /\ track' = IF track.kind = "unsaved_exit"
                THEN Track("unsaved_configure", <<>>)
                ELSE NoTrack
    /\ UNCHANGED <<main_config, saved_file>>

SessionInit ==
    /\ saved_file \in SavedConfigs
    /\ heap = <<<<>>, <<>>>>
    /\ pc = "operational"
    /\ last = [op |-> "start", args |-> <<>>, res |-> "ok", render |-> "none",
               out |-> NoOutput]
    /\ track = NoTrack
    /\ main_config = SchemaProtocols
    /\ commands_json = NoTree

SessionNext ==
    \/ Configure
    \/ \E p \in FullPaths : Set(p)
    \/ \E p \in FullPaths \cup {RouteBase} : Delete(p)
    \/ \E template_ok \in BOOLEAN : Commit(template_ok)
    \/ Discard
    \/ Save
    \/ Exit

SessionSpec == SessionInit /\ [][SessionNext]_vars

----------------------------------------------------------------------------
(* get_scripts_to_run applied to a schema document and a pair of trees *)

ScriptInit ==
    /\ main_config \in Schemas
    /\ \E running \in RunningInputs, candidate \in CandidateInputs :
          heap = ConfigPair(running, candidate)
    /\ pc = "call"
    /\ last = [op |-> "start", args |-> <<>>, res |-> "ok", render |-> "none",
               out |-> NoOutput]
    /\ track = NoTrack
    /\ commands_json = NoTree
    /\ saved_file = NoFile

GetScripts ==
    /\ pc = "call"
    /\ \E r \in {get_scripts_to_run(heap, main_config, CANDIDATE, RUNNING)} :
          last' = [op |-> "get_scripts_to_run", args |-> <<>>,
                   res |-> IF r.ex THEN "crash" ELSE "ok", render |-> "none",
                   out |-> [NoOutput EXCEPT !.mode = "scripts",
                                            !.scripts = r.scripts]]
    /\ pc' = "returned"
    /\ UNCHANGED <<heap, track, main_config, commands_json, saved_file>>

ScriptNext == GetScripts

ScriptSpec == ScriptInit /\ [][ScriptNext]_vars

----------------------------------------------------------------------------
(* The walks of one command line, applied to the lines drawn: the          *)
(* validator, the parser, the lookup of an operational command             *)
(* (mainCLI.py: find_command) and the completion key.  A token is a        *)
(* string; where the code looks into the text of one (str.find,            *)
(* str.startswith, os.path.commonprefix) the model reads its characters    *)
(* from Spelling.  A line is typed with one space between its tokens.      *)

\* the characters of the tokens that are drawn and of the keys of the tree
Spelling(t) ==
    CASE t = "set" -> <<"s", "e", "t">>
      [] t = "delete" -> <<"d", "e", "l", "e", "t", "e">>
      [] t = "show" -> <<"s", "h", "o", "w">>
      [] t = "compare" -> <<"c", "o", "m", "p", "a", "r", "e">>
      [] t = "commit" -> <<"c", "o", "m", "m", "i", "t">>
      [] t = "save" -> <<"s", "a", "v", "e">>
      [] t = "discard" -> <<"d", "i", "s", "c", "a", "r", "d">>
      [] t = "exit" -> <<"e", "x", "i", "t">>
      [] t = "commands" -> <<"c", "o", "m", "m", "a", "n", "d", "s">>
      [] t = "protocols" -> <<"p", "r", "o", "t", "o", "c", "o", "l", "s">>
      [] t = "static" -> <<"s", "t", "a", "t", "i", "c">>
      [] t = "route" -> <<"r", "o", "u", "t", "e">>
      [] t = "<prefix>" -> <<"<", "p", "r", "e", "f", "i", "x", ">">>
      [] t = "next-hop" -> <<"n", "e", "x", "t", "-", "h", "o", "p">>
      [] t = "<address>" -> <<"<", "a", "d", "d", "r", "e", "s", "s", ">">>
      [] t = "distance" -> <<"d", "i", "s", "t", "a", "n", "c", "e">>
      [] t = "<distance>" -> <<"<", "d", "i", "s", "t", "a", "n", "c", "e", ">">>
      [] t = "bgp" -> <<"b", "g", "p">>
      [] t = "10.1.0.0/16" -> <<"1", "0", ".", "1", ".", "0", ".", "0", "/", "1", "6">>
      [] t = "192.0.2.1" -> <<"1", "9", "2", ".", "0", ".", "2", ".", "1">>
      [] t = "192.0.2.2" -> <<"1", "9", "2", ".", "0", ".", "2", ".", "2">>
      [] t = "192.0.2.3" -> <<"1", "9", "2", ".", "0", ".", "2", ".", "3">>
      [] t = "192.0.2.4" -> <<"1", "9", "2", ".", "0", ".", "2", ".", "4">>
      [] t = "5" -> <<"5">>
      [] t = "mode" -> <<"m", "o", "d", "e">>
      [] t = "<mode>" -> <<"<", "m", "o", "d", "e", ">">>
      [] t = "on" -> <<"o", "n">>
      [] t = "off" -> <<"o", "f", "f">>
      [] t = "interfaces" -> <<"i", "n", "t", "e", "r", "f", "a", "c", "e", "s">>
      [] t = "<ifname>" -> <<"<", "i", "f", "n", "a", "m", "e", ">">>
      [] t = "ethernet" -> <<"e", "t", "h", "e", "r", "n", "e", "t">>
      [] t = "eth0" -> <<"e", "t", "h", "0">>
      [] t = "eth1" -> <<"e", "t", "h", "1">>
      [] t = "version" -> <<"v", "e", "r", "s", "i", "o", "n">>
      [] t = "<enter>" -> <<"<", "e", "n", "t", "e", "r", ">">>
      [] t = "<missing suggestor>" -> <<"<", "m", "i", "s", "s", "i", "n", "g", " ", "s", "u", "g", "g", "e", "s", "t", "o", "r", ">">>
      [] t = "BAD" -> <<"B", "A", "D">>
      [] t = "tic" -> <<"t", "i", "c">>
      [] t = "s" -> <<"s">>
      [] t = "se" -> <<"s", "e">>
      [] t = "c" -> <<"c">>
      [] t = "com" -> <<"c", "o", "m">>
      [] t = "e" -> <<"e">>
      [] t = "pro" -> <<"p", "r", "o">>
      [] t = "type" -> <<"t", "y", "p", "e">>
      [] t = "command" -> <<"c", "o", "m", "m", "a", "n", "d">>

RECURSIVE Text(_)
\* " ".join(parts)
Text(parts) ==
    IF Len(parts) = 0 THEN <<>>
    ELSE IF Len(parts) = 1 THEN Spelling(parts[1])
    ELSE Text(SubSeq(parts, 1, Len(parts) - 1)) \o <<" ">> \o Spelling(parts[Len(parts)])

\* cli_common.py line 138 and configCli.py line 152, for the token parts[at]:
\* text.find(part), the lowest index at which the token's text occurs
cursor_position(parts, at) ==
    LET text == Text(parts)
        sub == Spelling(parts[at])
        found == {i \in 0..(Len(text) - Len(sub)) : SubSeq(text, i + 1, i + Len(sub)) = sub}
    IN CHOOSE i \in found : \A j \in found : i <= j

RECURSIVE FindWalk(_, _, _, _)
\* mainCLI.py lines 35-45; ex where a step raises, node being no dict
FindWalk(node, path, i, tag_values) ==
    IF i > Len(path) THEN [node |-> node, tag_values |-> tag_values, ex |-> FALSE]
    ELSE IF node = NonNode THEN [node |-> node, tag_values |-> tag_values, ex |-> TRUE]
    ELSE IF HasKey(node, path[i])
    THEN FindWalk(Child(node, path[i]), path, i + 1, tag_values)
    ELSE IF TagEntry(node) = 0
    THEN [node |-> node, tag_values |-> tag_values, ex |-> FALSE]
    ELSE FindWalk(node.kids[TagEntry(node)].v, path, i + 1,
                  Put(tag_values, node.kids[TagEntry(node)].k, path[i]))

\* the command template and the values its tags are replaced by; found is
\* false where the code returns None
find_command(path, root) ==
    LET w == FindWalk(root, path, 1, <<>>)
    IN [found |-> w.node.command # "", command |-> w.node.command,
        tag_values |-> IF w.node.command # "" THEN w.tag_values ELSE <<>>,
        ex |-> w.ex]

\* what a suggestor answers (suggestors.py: the interfaces of the system)
Suggestors == [s \in {"list_interfaces"} |-> <<"eth0", "eth1">>]

RECURSIVE CompletionRows(_, _)
\* _get_completion_rows and _get_suggestor_rows: the first column
CompletionRows(node, i) ==
    IF i > Len(node.kids) THEN <<>>
    ELSE LET v == node.kids[i].v
         IN <<node.kids[i].k>>
            \o (IF v.type = "tagNode" /\ v.suggestor # ""
                THEN IF v.suggestor \in DOMAIN Suggestors THEN Suggestors[v.suggestor]
                     ELSE <<"<missing suggestor>">>
                ELSE <<>>)
            \o CompletionRows(node, i + 1)

\* the rows of a node, with the <enter> row of a node that has a command
Rows(node) ==
    (IF node.command # "" THEN <<"<enter>">> ELSE <<>>) \o CompletionRows(node, 1)

RECURSIVE TabWalk(_, _, _)
\* cli_common.py lines 149-159 and 243-247: the child or the tag child; ex
\* where a step raises, node being no dict
TabWalk(node, parts, i) ==
    IF i > Len(parts) THEN [ok |-> TRUE, node |-> node, ex |-> FALSE]
    ELSE IF node = NonNode THEN [ok |-> FALSE, node |-> node, ex |-> TRUE]
    ELSE IF HasKey(node, parts[i]) THEN TabWalk(Child(node, parts[i]), parts, i + 1)
    ELSE IF TagEntry(node) = 0 THEN [ok |-> FALSE, node |-> node, ex |-> FALSE]
    ELSE TabWalk(node.kids[TagEntry(node)].v, parts, i + 1)

\* print_possible_completions: the rows printed; found is false where it
\* prints "No completions found." (line 160: also where node is no dict)
print_possible_completions(path, root) ==
    LET w == TabWalk(root, path, 1)
    IN IF ~w.ok \/ Rows(w.node) = <<>>
       THEN [found |-> FALSE, rows |-> <<>>, ex |-> w.ex]
       ELSE [found |-> TRUE, rows |-> Rows(w.node), ex |-> FALSE]

\* os.path.commonprefix
CommonPrefix(names) ==
    LET S == {Spelling(names[i]) : i \in 1..Len(names)}
        one == Spelling(names[1])
        n == CHOOSE n \in 0..Len(one) :
                /\ \A s \in S : Len(s) >= n /\ SubSeq(s, 1, n) = SubSeq(one, 1, n)
                /\ \A m \in (n + 1)..Len(one) :
                      \E s \in S : Len(s) < m \/ SubSeq(s, 1, m) # SubSeq(one, 1, m)
    IN SubSeq(one, 1, n)

NoCompletion ==
    [kind |-> "none", erase |-> FALSE, insert |-> <<>>, found |-> FALSE, rows |-> <<>>]

\* the handler left by an error that is not caught
CompletionError == [NoCompletion EXCEPT !.kind = "error"]

\* the tab key binding, on the text " ".join(parts) followed by a space if
\* space: what is done to the buffer (erase the last token, insert) and
\* what is printed
autocomplete(root, parts, space) ==
    IF Len(parts) = 0 THEN NoCompletion
    ELSE LET is_mid_token == ~space
             last_token == IF is_mid_token THEN Spelling(parts[Len(parts)]) ELSE <<>>
             w == TabWalk(root, IF is_mid_token THEN SubSeq(parts, 1, Len(parts) - 1)
                                ELSE parts, 1)
             rows == Rows(w.node)
             Plain(r) == Spelling(r)[1] # "<" /\ StartsWith(Spelling(r), last_token)
             plain_matches == SelectSeq(rows, Plain)
             shown == print_possible_completions(parts, root)
         IN IF w.ex \/ w.node = NonNode THEN CompletionError
            ELSE IF ~w.ok \/ rows = <<>> THEN NoCompletion
            ELSE IF Len(plain_matches) = 1
            THEN [NoCompletion EXCEPT !.kind = "complete", !.erase = is_mid_token,
                                      !.insert = Spelling(plain_matches[1]) \o <<" ">>]
            ELSE IF /\ Len(plain_matches) > 1
                    /\ CommonPrefix(plain_matches) # <<>>
                    /\ CommonPrefix(plain_matches) # last_token
            THEN [NoCompletion EXCEPT !.kind = "extend", !.erase = is_mid_token,
                                      !.insert = CommonPrefix(plain_matches)]
            ELSE IF shown.ex THEN CompletionError
            ELSE [NoCompletion EXCEPT !.kind = "list", !.found = shown.found,
                                      !.rows = shown.rows]

\* the tree the walks are applied to: the loaded tree with an enum tag
\* node, a tag node with a suggestor next to a static key, and commands
WalkTree ==
    [load_commands_json EXCEPT
       !.set = @ \o
          <<Item("mode", StaticNode(<<
                Item("<mode>", [TagNode("enum", <<>>) EXCEPT !.enum = <<"on", "off">>])>>)),
            Item("interfaces", StaticNode(<<
                Item("<ifname>", [TagNode("", <<>>) EXCEPT !.suggestor = "list_interfaces"]),
                Item("ethernet", StaticNode(<<>>))>>))>>,
       !.show =
          <<Item("version", [StaticNode(<<>>) EXCEPT !.command = "uname -a"]),
            Item("route", StaticNode(<<
                Item("<prefix>", [TagNode("ip-prefix", <<>>) EXCEPT
                                    !.command = "ip route show <prefix>"])>>))>>,
       !.shared = {}]

BaseLines ==
    {<<"set">> \o RoutePath("10.1.0.0/16", HopNames[1]),
     <<"set", "mode", "on">>,
     <<"set", "interfaces", "eth0">>,
     <<"show", "version", "BAD">>,
     <<"show", "version", "command", "BAD">>,
     <<"show", "show", "version", "command", "BAD">>,
     <<"show", "route", "10.1.0.0/16">>,
     <<"delete", "set", "mode", "on">>,
     <<"show", "set", "protocols", "static", "route", "10.1.0.0/16">>}

\* tokens no validator accepts, tokens in progress, and reserved keys
OddTokens ==
    {"BAD", "static", "tic", "s", "se", "c", "com", "e", "pro", "type", "command"}

\* the lines drawn: a base line, cut anywhere, with at most one of its
\* tokens replaced
WalkLines ==
    UNION {{[j \in 1..n |-> IF j = i THEN t ELSE l[j]] :
               n \in 1..Len(l), i \in 0..Len(l), t \in OddTokens} : l \in BaseLines}

WalkInit ==
    /\ commands_json \in {load_commands_json, WalkTree}
    /\ heap = <<<<>>, <<>>>>
    /\ main_config = SchemaProtocols
    /\ pc = "call"
    /\ \E line \in WalkLines :
          last = [op |-> "start", args |-> line, res |-> "ok", render |-> "none",
                  out |-> NoOutput]
    /\ track = NoTrack
    /\ saved_file = NoFile

\* one function applied to the line drawn, with what it answered in r
Walked(op, res, r) ==
    /\ pc = "call"
    /\ last' = [op |-> op, args |-> last.args, res |-> res, render |-> "none",
                out |-> [NoOutput EXCEPT !.mode = op, !.walk = r]]
    /\ pc' = "returned"
    /\ UNCHANGED <<heap, track, main_config, commands_json, saved_file>>

\* CommandValidator(commands_json).validate(Document(user_input))
Validate ==
    \E at \in {validate(RootNode(commands_json), last.args, 1)} :
       Walked("validate",
              IF at = 0 THEN "none"
              ELSE IF at > 0 THEN "ValidationError" ELSE "NonNodeError",
              [at |-> at,
               cursor |-> IF at > 0 THEN cursor_position(last.args, at) ELSE 0 - 1])

\* parse_config_command(user_input, commands_json); at counts the tokens of
\* the line, the action included
ParseCommand ==
    \E r \in {parse_errors(RootNode(commands_json), last.args[1], Tail(last.args))} :
       Walked("parse_config_command", r.ex,
              [at |-> IF r.at = 0 THEN 0 ELSE r.at + 1,
               cursor |-> IF r.ex = "ValidationError"
                          THEN cursor_position(last.args, r.at + 1) ELSE 0 - 1])

\* find_command(parts, commands_json)
FindCommand ==
    \E r \in {find_command(last.args, RootNode(commands_json))} :
       Walked("find_command", IF r.ex THEN "NonNodeError" ELSE "none", r)

\* the tab key, on the line followed by a space or not
Autocomplete(space) ==
    \E r \in {autocomplete(RootNode(commands_json), last.args, space)} :
       Walked("autocomplete", IF r.kind = "error" THEN "NonNodeError" ELSE "none",
              [space |-> space] @@ r)

WalkNext ==
    \/ Validate
    \/ ParseCommand
    \/ FindCommand
    \/ \E space \in BOOLEAN : Autocomplete(space)

WalkSpec == WalkInit /\ [][WalkNext]_vars

----------------------------------------------------------------------------
(* Configuration trees as values: what two trees are compared by *)

\* the entries of the tree under object o: every path, and whether it holds
\* the deletion marker (None) or a map
RECURSIVE TreeOf(_, _, _)
TreeOf(h, o, pre) ==
    UNION {LET p == Append(pre, h[o][i].k)
               v == h[o][i].v
           IN {[path |-> p, tomb |-> (v = NoneV)]}
              \cup (IF v = NoneV THEN {} ELSE TreeOf(h, v, p))
           : i \in 1..Len(h[o])}

RunningTree(h) == TreeOf(h, RUNNING, <<>>)
CandidateTree(h) == TreeOf(h, CANDIDATE, <<>>)

IsPrefix(q, p) == Len(q) <= Len(p) /\ SubSeq(p, 1, Len(q)) = q

Tombstones(tree) == {e.path : e \in {x \in tree : x.tomb}}

\* the path is in the tree, as a map or as a tombstone
InTree(tree, p) == \E e \in tree : e.path = p

\* the path holds a map with no children
IsEmptyMap(tree, p) ==
    /\ [path |-> p, tomb |-> FALSE] \in tree
    /\ ~\E e \in tree : e.path # p /\ IsPrefix(p, e.path)

\* running merged with candidate, tombstoned paths removed: what is in
\* running and not at or under a tombstone of candidate, and every map of
\* candidate
Effective(h) ==
    LET R == RunningTree(h)
        C == CandidateTree(h)
        staged == {e \in C : ~e.tomb}
        kept == {e \in R : /\ ~\E t \in Tombstones(C) : IsPrefix(t, e.path)
                           /\ ~(e.tomb /\ InTree(staged, e.path))}
    IN kept \cup staged

----------------------------------------------------------------------------
(* Properties *)

\* C1: from an empty candidate, set P followed by delete P leaves candidate
\* empty, with no tombstone and no leftover empty ancestor map
RoundTripLeavesCandidateEmpty ==
    track.kind = "set_delete" => CandidateTree(heap) = {}

\* C2: for P present in running, delete P followed by a commit yields a
\* running configuration in which P is absent
DeleteThenCommitRemovesPath ==
    track.kind = "delete_commit" => ~Exists(heap, RUNNING, track.path)

FailedCommitChangesNothing ==
    [][(last'.op = "commit" /\ (last'.res = "error" \/ last'.render = "failed"))
       => /\ RunningTree(heap') = RunningTree(heap)
          /\ CandidateTree(heap') = CandidateTree(heap)]_vars

\* C5: set, delete, show, compare and discard leave running, at every depth,
\* as it was
OnlyCommitChangesRunning ==
    [][last'.op \in {"set", "delete", "show", "compare", "discard"}
       => RunningTree(heap') = RunningTree(heap)]_vars

\* C6: delete P, for P absent from both running and candidate, reports the
\* path-not-found error and changes neither tree
DeleteAbsentReportsNotFound ==
    [][(/\ last'.op = "delete"
        /\ ~InTree(RunningTree(heap), last'.args)
        /\ ~InTree(CandidateTree(heap), last'.args))
       => /\ last'.res = "not_found"
          /\ RunningTree(heap') = RunningTree(heap)
          /\ CandidateTree(heap') = CandidateTree(heap)]_vars

\* C7: a commit with nothing staged leaves a tombstone-free running
\* configuration deep-equal to what it was
EmptyCommitKeepsRunning ==
    [][(/\ last'.op = "commit"
        /\ CandidateTree(heap) = {}
        /\ Tombstones(RunningTree(heap)) = {})
       => /\ last'.res = "ok"
          /\ RunningTree(heap') = RunningTree(heap)]_vars

EmptyCommitKeepsRunningWitness ==
    /\ track.kind = "empty_commit"
    /\ last.op = "commit" /\ last.res = "ok"
    /\ Tombstones(RunningTree(heap)) = {}
    /\ \E e \in RunningTree(heap) : Len(e.path) = 6

\* C8: running never contains a tombstone
RunningHasNoTombstone == Tombstones(RunningTree(heap)) = {}

\* C9: when a commit deletes a tombstoned path and leaves its parent map
\* empty, the parent is pruned: running holds no map the deletion emptied
CommitPrunesEmptiedParent ==
    [][(last'.op = "commit" /\ last'.res = "ok" /\ last'.render = "rendered")
       => \A t \in Tombstones(CandidateTree(heap)) :
             (Len(t) >= 2 /\ Exists(heap, RUNNING, t))
             => ~IsEmptyMap(RunningTree(heap'), SubSeq(t, 1, Len(t) - 1))]_vars

\* C10: after set P, every prefix of P, and P itself, is in candidate as a
\* map
SetStagesEveryPrefix ==
    (last.op = "set" /\ last.res = "ok")
    => \A n \in 1..Len(last.args) :
          [path |-> SubSeq(last.args, 1, n), tomb |-> FALSE] \in CandidateTree(heap)

\* C11: set P, when candidate holds a tombstone at P, leaves P in candidate as
\* a present value, with every ancestor of P still present
SetOverwritesTombstone ==
    [][(/\ last'.op = "set"
        /\ [path |-> last'.args, tomb |-> TRUE] \in CandidateTree(heap))
       => \A n \in 1..Len(last'.args) :
             [path |-> SubSeq(last'.args, 1, n), tomb |-> FALSE]
                 \in CandidateTree(heap')]_vars

\* the maps along path p, one per prefix
Chain(p) == {[path |-> SubSeq(p, 1, n), tomb |-> FALSE] : n \in 1..Len(p)}

\* the entries of a tree strictly below path p
Below(tree, p) == {e \in tree : IsPrefix(p, e.path) /\ e.path # p}

\* the tokens carry a value after a next-hop token
HasNextHopValue(p) ==
    /\ \E i \in 1..Len(p) : p[i] = "next-hop"
    /\ NextHopIndex(p) > 1
    /\ NextHopIndex(p) < Len(p)

\* C12: set ... <prefix> next-hop <value> stages one compound leaf: candidate
\* maps <prefix>, under the path before it, to exactly {next-hop: {<value>:
\* {}}}; on an empty candidate the result is exactly the single chain
SetNextHopStagesCompoundLeaf ==
    [][(last'.op = "set" /\ HasNextHopValue(last'.args))
       => LET p == last'.args
              n == NextHopIndex(p)
          IN /\ last'.res = "ok"
             /\ Chain(SubSeq(p, 1, n + 1)) \subseteq CandidateTree(heap')
             /\ Below(CandidateTree(heap'), SubSeq(p, 1, n - 1))
                   = Chain(SubSeq(p, 1, n + 1)) \ Chain(SubSeq(p, 1, n - 1))
             /\ (CandidateTree(heap) = {}
                   => CandidateTree(heap') = Chain(SubSeq(p, 1, n + 1)))]_vars

SetNextHopStagesCompoundLeafWitness ==
    /\ track.kind = "set"
    /\ last.op = "set" /\ last.res = "ok" /\ HasNextHopValue(last.args)
    /\ RunningTree(heap) = {}
    /\ CandidateTree(heap) = Chain(last.args)

\* the path a line of the raw output names: the keys of the enclosing ":"
\* lines, then its own key
LinePath(lines, i) ==
    [j \in 1..(lines[i].indent + 1) |->
        IF j = lines[i].indent + 1 THEN lines[i].key
        ELSE LET m == CHOOSE m \in 1..(i - 1) :
                         /\ lines[m].indent = j - 1
                         /\ \A q \in (m + 1)..(i - 1) : lines[q].indent # j - 1
             IN lines[m].key]

\* the paths a compare output reports as deletions
ReportedDeletions(out) ==
    {out.deleted[i].path : i \in 1..Len(out.deleted)}
    \cup {LinePath(out.lines, i) : i \in {j \in 1..Len(out.lines) : out.lines[j].mark = "-"}}

\* C13: compare, in either output mode, reports no deletion for a tombstone
\* of candidate whose path is not in running
CompareSuppressesAbsentTombstone ==
    last.op = "compare"
    => \A t \in Tombstones(CandidateTree(heap)) :
          ~InTree(RunningTree(heap), t) => t \notin ReportedDeletions(last.out)

\* C14: on an empty candidate, delete P for P present in running followed by
\* compare commands reports the one line "- delete P" and no addition
DeleteThenCompareCommands ==
    (/\ track.kind = "delete_compare" /\ track.fresh
     /\ last.op = "compare" /\ last.args = <<"commands">>)
    => /\ last.out.mode = "commands"
       /\ last.out.deleted = <<[path |-> track.path, tomb |-> TRUE]>>
       /\ last.out.added = <<>>

\* C15: a second delete P, right after a delete P that wrote a tombstone at P,
\* reports no error and leaves candidate and running as they were
SecondDeleteIsIdempotent ==
    [][(/\ last.op = "delete" /\ last.res = "marked"
        /\ last'.op = "delete" /\ last'.args = last.args)
       => /\ last'.res \notin {"not_found", "no_path", "crash"}
          /\ CandidateTree(heap') = CandidateTree(heap)
          /\ RunningTree(heap') = RunningTree(heap)]_vars

SecondDeleteIsIdempotentWitness ==
    /\ track.kind = "delete_twice"
    /\ last.op = "delete" /\ last.res = "marked"
    /\ track.path \in Tombstones(CandidateTree(heap))

\* C16: discard leaves candidate empty and running, nested subtrees included,
\* as it was
DiscardClearsCandidateOnly ==
    [][last'.op = "discard"
       => /\ CandidateTree(heap') = {}
          /\ RunningTree(heap') = RunningTree(heap)]_vars

DiscardClearsCandidateOnlyWitness ==
    /\ track.kind = "discard_staged"
    /\ last.op = "discard"
    /\ CandidateTree(heap) = {}
    /\ \E e \in RunningTree(heap) : Len(e.path) = 6

\* the script bindings of the schema in declaration order, and their scripts
Bindings == find_script_paths(main_config, <<>>)

BindingScript(i) == ScriptAt(main_config, Bindings[i], 1)

BindingScripts == [i \in 1..Len(Bindings) |-> BindingScript(i)]

Returned == pc = "returned" /\ last.op = "get_scripts_to_run" /\ last.res = "ok"

Count(seq, x) == Cardinality({i \in 1..Len(seq) : seq[i] = x})

\* the tree holds something below path p
NonEmptyAt(tree, p) == \E e \in tree : IsPrefix(p, e.path) /\ e.path # p

\* the three ways a binding fires: an edit at or under its prefix, a deletion
\* at or under its prefix, the deletion of an ancestor of a prefix at which
\* running holds configuration
EditUnder(sp) == \E e \in CandidateTree(heap) : ~e.tomb /\ IsPrefix(sp, e.path)

DeletionUnder(sp) == \E t \in Tombstones(CandidateTree(heap)) : IsPrefix(sp, t)

AncestorDeleted(sp) ==
    /\ \E t \in Tombstones(CandidateTree(heap)) : IsPrefix(t, sp) /\ t # sp
    /\ NonEmptyAt(RunningTree(heap), sp)

\* C17: every script some rule makes fire is in the returned list exactly
\* once, and no script is in it twice
ScriptsListedOnce ==
    Returned
    => /\ \A i \in 1..Len(Bindings) :
             (EditUnder(Bindings[i]) \/ DeletionUnder(Bindings[i])
                 \/ AncestorDeleted(Bindings[i]))
             => Count(last.out.scripts, BindingScript(i)) = 1
       /\ \A j \in 1..Len(last.out.scripts) :
             Count(last.out.scripts, last.out.scripts[j]) = 1

\* two bindings of one script fire, one by an edit and one by a deletion
ScriptsListedOnceWitness ==
    /\ Returned
    /\ \E i, j \in 1..Len(Bindings) :
          /\ i # j
          /\ BindingScript(i) = BindingScript(j)
          /\ EditUnder(Bindings[i])
          /\ DeletionUnder(Bindings[j]) \/ AncestorDeleted(Bindings[j])
          /\ Count(last.out.scripts, BindingScript(i)) = 1

\* seq is what is left of full after dropping some of its elements
IsSubsequence(seq, full) ==
    \E idx \in [1..Len(seq) -> 1..Len(full)] :
       /\ \A j \in 1..Len(seq) : full[idx[j]] = seq[j]
       /\ \A j \in 1..(Len(seq) - 1) : idx[j] < idx[j + 1]

\* C18: the returned scripts are in the declaration order of their bindings
ScriptsInSchemaOrder ==
    Returned => IsSubsequence(last.out.scripts, BindingScripts)

\* C19: a script is returned if and only if one of its bindings has (a) a
\* candidate path at or under its prefix and non-empty running or candidate
\* content at the prefix, or (b) a tombstone at or under its prefix and
\* non-empty running content at the prefix
ScriptFiresIffRule ==
    Returned
    => \A i \in 1..Len(Bindings) :
          (\E j \in 1..Len(last.out.scripts) : last.out.scripts[j] = BindingScript(i))
          <=> \E b \in 1..Len(Bindings) :
                 /\ BindingScript(b) = BindingScript(i)
                 /\ \/ /\ \E e \in CandidateTree(heap) : IsPrefix(Bindings[b], e.path)
                       /\ \/ NonEmptyAt(RunningTree(heap), Bindings[b])
                          \/ NonEmptyAt(CandidateTree(heap), Bindings[b])
                    \/ /\ DeletionUnder(Bindings[b])
                       /\ NonEmptyAt(RunningTree(heap), Bindings[b])

Reverse(seq) == [i \in 1..Len(seq) |-> seq[Len(seq) + 1 - i]]

\* the same trees, with the items of the dicts in S in the opposite order
Reordered(h, S) == [o \in 1..Len(h) |-> IF o \in S THEN Reverse(h[o]) ELSE h[o]]

\* C20: the returned list is a function of the schema and of the two
\* configurations as trees: the same trees, held in dicts whose items were
\* inserted in another order, give the same scripts in the same order
ScriptsIndependentOfItemOrder ==
    Returned
    => \A S \in SUBSET {o \in 1..Len(heap) : Len(heap[o]) > 1} :
          get_scripts_to_run(Reordered(heap, S), main_config, CANDIDATE, RUNNING)
             = [ex |-> FALSE, scripts |-> last.out.scripts]

\* a candidate with two tombstones in one dict, one of them an ancestor of a
\* binding that fires
ScriptsIndependentOfItemOrderWitness ==
    /\ Returned
    /\ \E o \in 1..Len(heap) :
          /\ Len(heap[o]) = 2
          /\ heap[o][1].v = NoneV /\ heap[o][2].v = NoneV
    /\ \E i \in 1..Len(Bindings) :
          /\ AncestorDeleted(Bindings[i])
          /\ Count(last.out.scripts, BindingScript(i)) = 1

----------------------------------------------------------------------------
(* Command lines that are rejected or that no branch takes *)

RecognizedActions ==
    {"set", "delete", "show", "compare", "commit", "save", "discard", "exit"}

\* C21: a line whose first token is not a recognized action is rejected with
\* a reported error, and the command changes neither candidate nor running
UnrecognizedActionRejected ==
    [][(/\ last'.op \in {"other", "rejected"}
        /\ last'.args[1] \notin RecognizedActions)
       => (last'.res = "ValidationError" /\ heap' = heap)]_vars

\* the line just rejected with a ValidationError
RejectedLine == last.op = "rejected" /\ last.res = "ValidationError"

\* the index in that line of the token the validator raised for
OffendingToken == validate(RootNode(commands_json), last.args, 1)

\* C24: the input restored after a ValidationError is exactly the tokens
\* that precede the offending token
RestoreStopsBeforeOffendingToken ==
    (RejectedLine /\ OffendingToken > 0)
    => last.out.restore = SubSeq(last.args, 1, OffendingToken - 1)

SetTreeReadOnly ==
    /\ commands_json.set = load_commands_json.set
    /\ \A p \in ShellPaths \cup BadPaths :
          validate(RootNode(commands_json), Parts("set", p), 1)
             = validate(RootNode(load_commands_json), Parts("set", p), 1)

----------------------------------------------------------------------------
(* The two branches of delete; additions and deletions of compare commands *)

Present(tree, p) == [path |-> p, tomb |-> FALSE] \in tree

\* C27: delete P removes P from candidate, writing no tombstone, when
\* candidate holds P as content; otherwise, when running holds P, it writes
\* a tombstone at exactly P and leaves every other path of candidate as it
\* was (only the ancestors of P that candidate lacked are added, as maps)
DeletePicksBranchByWhereItExists ==
    [][last'.op = "delete"
       => LET p == last'.args
              C == CandidateTree(heap)
              D == CandidateTree(heap')
          IN IF Present(C, p)
             THEN ~InTree(D, p) /\ Tombstones(D) = Tombstones(C)
             ELSE Present(RunningTree(heap), p)
                  => /\ [path |-> p, tomb |-> TRUE] \in D
                     /\ \A e \in C : e.path # p => e \in D
                     /\ \A e \in D \ C :
                           e.path = p \/ (IsPrefix(e.path, p) /\ ~e.tomb)]_vars

\* C30: compare commands reports a present leaf of candidate as an addition
\* exactly when its path is absent from running, and a tombstone as a
\* deletion exactly when its path exists in running
CompareCommandsAddsAbsentDeletesPresent ==
    (last.op = "compare" /\ last.out.mode = "commands")
    => LET C == CandidateTree(heap)
           R == RunningTree(heap)
           added == {last.out.added[i].path : i \in 1..Len(last.out.added)}
           deleted == {last.out.deleted[i].path : i \in 1..Len(last.out.deleted)}
       IN /\ \A e \in C : IsEmptyMap(C, e.path)
                           => (e.path \in added <=> ~InTree(R, e.path))
          /\ \A t \in Tombstones(C) : t \in deleted <=> Present(R, t)

\* the line walked has a token that matches neither a static key nor a tag
\* child at its position
UnmatchedToken == ~TabWalk(RootNode(commands_json), last.args, 1).ok

\* C22: find_command returns not found for a path with a token that matches
\* neither a static key nor a tag child at its position, never the command
\* of the prefix matched before that token
FindCommandStopsAtUnmatchedToken ==
    (pc = "returned" /\ last.op = "find_command" /\ UnmatchedToken)
    => ~last.out.walk.found

\* the offset in " ".join(parts) at which the token parts[at] starts
TokenOffset(parts, at) ==
    IF at = 1 THEN 0 ELSE Len(Text(SubSeq(parts, 1, at - 1))) + 1

\* C23: the ValidationError raised for a token that fails its tag node's
\* validator carries the offset at which that token starts in the line,
\* also when its text occurs earlier in the line
ErrorCarriesOffsetOfOffendingToken ==
    (/\ pc = "returned"
     /\ last.op \in {"validate", "parse_config_command"}
     /\ last.res = "ValidationError")
    => last.out.walk.cursor = TokenOffset(last.args, last.out.walk.at)

\* C29: parse_config_command raises an error for a token of a command line
\* exactly when CommandValidator.validate raises a ValidationError for that
\* token of the same line
ParserRaisesWhereValidatorRaises ==
    (pc = "returned" /\ last.op = "parse_config_command")
    => LET at == validate(RootNode(commands_json), last.args, 1)
       IN /\ (last.res # "none") <=> (at # 0)
          /\ at # 0 => last.out.walk.at = at

\* what was typed of the token in progress when the completion key was hit
TypedToken ==
    IF last.out.walk.space THEN <<>> ELSE Spelling(last.args[Len(last.args)])

\* the candidates at the position of the token in progress that start with
\* what was typed: static keys and suggested values, in the order of the node
Candidates ==
    LET w == TabWalk(RootNode(commands_json),
                     IF last.out.walk.space THEN last.args
                     ELSE SubSeq(last.args, 1, Len(last.args) - 1), 1)
        Matches(r) == Spelling(r)[1] # "<" /\ StartsWith(Spelling(r), TypedToken)
    IN IF w.ok THEN SelectSeq(Rows(w.node), Matches) ELSE <<>>

\* C26: the completion key completes the only candidate and adds a space;
\* extends the token to the common prefix of several candidates when that is
\* longer than what was typed; and otherwise leaves the line as it is and
\* shows the candidates
CompletionTieBreak ==
    (pc = "returned" /\ last.op = "autocomplete")
    => LET w == last.out.walk
       IN /\ Len(Candidates) = 1
             => w.kind = "complete" /\ w.insert = Spelling(Candidates[1]) \o <<" ">>
          /\ (Len(Candidates) > 1 /\ Len(CommonPrefix(Candidates)) > Len(TypedToken))
             => w.kind = "extend" /\ w.insert = CommonPrefix(Candidates)
          /\ (Len(Candidates) > 1 /\ Len(CommonPrefix(Candidates)) = Len(TypedToken))
             => /\ w.kind = "list"
                /\ w.found
                /\ \A i \in 1..Len(Candidates) :
                      \E j \in 1..Len(w.rows) : w.rows[j] = Candidates[i]
          /\ Len(Candidates) = 0 => w.kind \in {"list", "none"}

\* candidate holds tombstones only: it is not empty and each of its leaves
\* is a tombstone
OnlyTombstones ==
    /\ CandidateTree(heap) # {}
    /\ \A e \in CandidateTree(heap) :
          e.tomb \/ NonEmptyAt(CandidateTree(heap), e.path)

\* C31: with a candidate of tombstones only, a script none of whose bindings
\* has its prefix in running is not returned, wherever the tombstones sit
NoScriptForDeletionOfUnconfigured ==
    (Returned /\ OnlyTombstones)
    => \A i \in 1..Len(Bindings) :
          (\A b \in 1..Len(Bindings) :
              BindingScript(b) = BindingScript(i)
              => ~InTree(RunningTree(heap), Bindings[b]))
          => Count(last.out.scripts, BindingScript(i)) = 0

\* the paths candidate names: its leaves, staged or tombstoned
Named(C) == {e.path : e \in {x \in C : ~NonEmptyAt(C, x.path)}}

\* path p is neither a path candidate names, nor above one, nor below one
Unnamed(p, C) == \A q \in Named(C) : ~IsPrefix(p, q) /\ ~IsPrefix(q, p)

\* the part of a tree at and below path p
Subtree(tree, p) == {e \in tree : IsPrefix(p, e.path)}

\* C32: a commit leaves the subtree of every running path that candidate
\* does not name (as the path, an ancestor or a descendant) as it was
CommitChangesOnlyNamedPaths ==
    [][last'.op = "commit"
       => \A e \in RunningTree(heap) :
             Unnamed(e.path, CandidateTree(heap))
             => Subtree(RunningTree(heap'), e.path)
                   = Subtree(RunningTree(heap), e.path)]_vars

\* a commit has removed one next-hop of a route and running still holds
\* another
CommitChangesOnlyNamedPathsWitness ==
    /\ track.kind = "delete_commit"
    /\ last.op = "commit" /\ last.res = "ok" /\ last.render = "rendered"
    /\ Len(track.path) = 6
    /\ ~InTree(RunningTree(heap), track.path)
    /\ \E e \in RunningTree(heap) :
          Len(e.path) = 6 /\ SubSeq(e.path, 1, 5) = SubSeq(track.path, 1, 5)

\* the merged configuration show_subtree builds in the state of heap h
ShownTree(h) ==
    LET h0 == ShallowCopy(h, RUNNING)
    IN TreeOf(update_config_dict(h0, Len(h0), CANDIDATE).h, Len(h0), <<>>)

\* what a commit issued in the state of heap h installs as running
InstalledTree(h) == RunningTree(handle_commit(h, TRUE).h)

\* a commit issued in the state of heap h succeeds
CommitSucceeds(h) ==
    handle_commit(h, TRUE).res = "ok" /\ handle_commit(h, TRUE).render = "rendered"

\* C33: what show <path> displays of the merged configuration is what a
\* commit issued at that point would install there, and the commit installs
\* the same tree after the show as before it
ShowDisplaysWhatCommitInstalls ==
    [][(/\ last'.op = "show"
        /\ last'.res \in {"printed", "no_config"}
        /\ (Len(last'.args) = 0
              \/ last'.args[1] \notin {"commands", "running", "candidate"})
        /\ CommitSucceeds(heap))
       => /\ Subtree(ShownTree(heap), last'.args)
               = Subtree(InstalledTree(heap), last'.args)
          /\ CommitSucceeds(heap')
          /\ InstalledTree(heap') = InstalledTree(heap)]_vars

\* C34: every tombstone in candidate sits at a path that exists in running
TombstonesSitOnRunningPaths ==
    \A t \in Tombstones(CandidateTree(heap)) : InTree(RunningTree(heap), t)

\* C35: delete Q, for Q in running and below a tombstone of candidate, ends
\* without an unhandled exception: candidate is left as it was or an error
\* is reported, and the loop prompts for the next command
DeleteBelowTombstoneIsHandled ==
    [][(/\ last'.op = "delete"
        /\ InTree(RunningTree(heap), last'.args)
        /\ \E t \in Tombstones(CandidateTree(heap)) :
              IsPrefix(t, last'.args) /\ t # last'.args)
       => /\ last'.res # "crash"
          /\ pc' = "prompt"
          /\ \/ CandidateTree(heap') = CandidateTree(heap)
             \/ last'.res = "not_found"]_vars

\* the next-hop values tree holds as maps under the route prefix of path p
StagedHops(tree, p) ==
    LET n == NextHopIndex(p)
    IN {e.path[n + 1] : e \in {x \in tree : /\ ~x.tomb
                                            /\ Len(x.path) = n + 1
                                            /\ SubSeq(x.path, 1, n) = SubSeq(p, 1, n)}}

\* C36: a set with a next-hop value on a route prefix for which candidate
\* holds another staged next-hop value replaces what is staged under the
\* prefix: candidate then holds only the later value there
SetNextHopReplacesStagedHops ==
    [][(/\ last'.op = "set"
        /\ HasNextHopValue(last'.args)
        /\ StagedHops(CandidateTree(heap), last'.args)
              \ {last'.args[NextHopIndex(last'.args) + 1]} # {})
       => StagedHops(CandidateTree(heap'), last'.args)
             = {last'.args[NextHopIndex(last'.args) + 1]}]_vars

\* two sets in a row on one prefix with two next-hop values
SetNextHopReplacesStagedHopsWitness ==
    /\ track.kind = "set_again"
    /\ last.op = "set" /\ last.res = "ok" /\ HasNextHopValue(last.args)
    /\ last.args # track.path
    /\ ~InTree(CandidateTree(heap), track.path)
    /\ Present(CandidateTree(heap), last.args)

\* the routes the static-route extractor reads from candidate in heap h
StagedRoutes(h) ==
    LET r == extract_static_routes(h, CANDIDATE).routes
    IN {r[i] : i \in 1..Len(r)}

\* C37: a set with tokens after the value of next-hop stages what the same
\* command stages without them: nothing below the next-hop value, and so no
\* distance for the extractor to read there
SetNextHopIgnoresTrailingTokens ==
    [][(/\ last'.op = "set"
        /\ HasNextHopValue(last'.args)
        /\ Len(last'.args) > NextHopIndex(last'.args) + 1)
       => LET p == last'.args
              n == NextHopIndex(p)
          IN /\ last'.res = "ok"
             /\ heap' = DoSet(heap, SubSeq(p, 1, n + 1)).h
             /\ Present(CandidateTree(heap'), SubSeq(p, 1, n + 1))
             /\ Below(CandidateTree(heap'), SubSeq(p, 1, n + 1)) = {}
             /\ <<p[n - 1], p[n + 1], "None">> \in StagedRoutes(heap')
             /\ \A d \in {"5", "distance"} :
                   <<p[n - 1], p[n + 1], d>> \notin StagedRoutes(heap')]_vars

SetNextHopIgnoresTrailingTokensWitness ==
    /\ last.op = "set" /\ last.res = "ok"
    /\ last.args = DistancePath
    /\ Present(CandidateTree(heap), ShellRoute)
    /\ <<"10.1.0.0/16", HopNames[1], "None">> \in StagedRoutes(heap)

\* the line walked holds a token that names a reserved key of the schema
HasReservedToken ==
    \E i \in 1..Len(last.args) :
       last.args[i] \in {"type", "validator", "enum-values", "suggestor", "command"}

\* C38: a token equal to a reserved schema key is not resolved as a static
\* child, so the walk of a line that holds one ends without an error other
\* than a ValidationError
ReservedKeyTokenIsUnmatched ==
    (pc = "returned" /\ HasReservedToken) => last.res # "NonNodeError"

\* the tree a saved file holds, as the entries of its leaves
FileLeaves(file) == {file.entries[i] : i \in 1..Len(file.entries)}

\* the leaves of a tree: the entries nothing lies below
LeavesOf(tree) == {e \in tree : ~\E f \in tree : IsPrefix(e.path, f.path) /\ f # e}

\* C39: every entry into configuration mode starts with an empty candidate
\* and with the running configuration of the saved file, empty without a
\* file; the file changes in a save only, so what an earlier session
\* committed and did not save is absent after exit and configure
SessionStartsFromSavedFile ==
    [][/\ last'.op = "configure"
          => /\ pc' = "prompt"
             /\ heap'[CANDIDATE] = <<>>
             /\ LeavesOf(RunningTree(heap')) = FileLeaves(saved_file)
             /\ ~saved_file.exists => heap'[RUNNING] = <<>>
       /\ saved_file' # saved_file => last'.op = "save"]_vars

SessionStartsFromSavedFileWitness ==
    /\ last.op = "configure"
    /\ track.kind = "unsaved_configure"
    /\ saved_file.exists
    /\ LeavesOf(RunningTree(heap)) = FileLeaves(saved_file)

====
